---- MODULE Spec2Model ----
(***************************************************************************)
(* Verification model of the spore-tree optimisation code:                 *)
(*   src/src/spore_tree.py            SporeTree (build, sort, update)      *)
(*   src/src/tree_evaluator.py        TreeEvaluator (build once, update)   *)
(*   src/src/pairs/...                pair optimiser, chronology matcher   *)
(*   src/src/area_opt/...             constrained area optimiser           *)
(*                                                                         *)
(* Python lists are modelled as functions over 0..n-1 so that the indices  *)
(* of the source (parent 0, pairs (0,1),(2,3),...) are kept.  Times are    *)
(* integers (ticks); positions are integer pairs <<x, w>>.                 *)
(***************************************************************************)
EXTENDS Integers, Sequences, FiniteSets, TLC

VARIABLES
    children,               \* SporeTree.children: 0..3 -> child record
    gcObj,                  \* the grandchild dicts, by object identity
    grandchildren,          \* SporeTree.grandchildren: list of object ids
    sorted_grandchildren,   \* SporeTree.sorted_grandchildren: list of object ids
    pairing_candidate_map,  \* SporeTree.pairing_candidate_map
    children_created,       \* SporeTree._children_created
    grandchildren_created,  \* SporeTree._grandchildren_created
    grandchildren_sorted,   \* SporeTree._grandchildren_sorted
    mean_points,            \* SporeTree.mean_points (None or 4 points)
    err,                    \* exception raised by the last call, or NoError
    op,                     \* the last operation called and its argument
    ev,                     \* TreeEvaluator: _initialised, _last_dt
    matcher,                \* extract_pairs_from_chronology: pairs, used set, loop position
    pairopt,                \* optimize_grandchild_pair_distance: inputs, best point, result
    areaopt,                \* optimize_tree_area: inputs, solver outcome, result
    config,                 \* SporeTreeConfig: initial_position, dt_base, dt_grandchildren_factor, optimization_method
    pipeline,               \* find_optimal_dt_vector: stage reached, stage results, return value
    finder                  \* find_optimal_pairs: stage reached, optimisation results, return value

treeVars == <<children, gcObj, grandchildren, sorted_grandchildren,
              pairing_candidate_map, children_created, grandchildren_created,
              grandchildren_sorted, mean_points>>

----------------------------------------------------------------------------
(* Bounds of the model *)

MaxDt == 3          \* dt magnitudes are DtStep * (1..MaxDt) ticks
DtStep == 2         \* grid of the dt magnitudes, coarser than AllCloseTol

(* Program constants *)

NumChildren == 4
GcPerChild == 2
NumPairs == 4
UMax == 2
AllCloseTol == 1

NumGC == NumChildren * GcPerChild

None == "None"
NoMeanPoints == [i \in {} |-> 0]   \* mean_points = None
NoError == [type |-> "none"]
NoObj == [alive |-> FALSE]

ChildIdx == 0..(NumChildren - 1)
GcIdx == 0..(NumGC - 1)
ObjIds == 0..(2 * NumGC - 1)

Abs(x) == IF x < 0 THEN -x ELSE x

Len0(f) == Cardinality(DOMAIN f)

EmptyList == [i \in {} |-> 0]

----------------------------------------------------------------------------
(* The state-transition collaborator.  step(state, control, dt) is the     *)
(* deterministic flow of the controlled system for a signed time dt; the   *)
(* model integrates the control torque exactly,                            *)
(*     w' = w + u*dt,   theta' = theta + w*dt + u*dt*dt/2,                 *)
(* with x = 2*theta so that all values stay integer.                       *)

\* tree.root['position'] = config.initial_position
RootPosition == config.initial_position

Step(state, control, dt) ==
    <<state[1] + dt * (2 * state[2] + control * dt), state[2] + control * dt>>

get_control_bounds == <<-UMax, UMax>>

----------------------------------------------------------------------------
(* Bearing angle from the root: the order that np.arctan2(dy, dx) induces  *)
(* on integer vectors, computed exactly.                                   *)

AngleClass(v) ==
    IF v[2] < 0 THEN 0
    ELSE IF v[2] = 0 /\ v[1] >= 0 THEN 1
    ELSE IF v[2] > 0 THEN 2
    ELSE 3

Rel(pos) == <<pos[1] - RootPosition[1], pos[2] - RootPosition[2]>>

\* arctan2 of a is strictly smaller than arctan2 of b
AngleLess(a, b) ==
    LET ca == AngleClass(a)
        cb == AngleClass(b)
    IN  IF ca # cb THEN ca < cb
        ELSE IF ca \in {1, 3} THEN FALSE
        ELSE a[1] * b[2] - a[2] * b[1] > 0

get_angle_less(g1, g2) == AngleLess(Rel(g1.position), Rel(g2.position))

\* sorted(lst, key=get_angle_from_root, reverse=True): descending and stable
SortedByAngleDesc(lst, obj) ==
    LET n == Len0(lst)
        rank(i) == Cardinality({j \in 0..(n-1) : get_angle_less(obj[lst[i]], obj[lst[j]])})
                 + Cardinality({j \in 0..(n-1) : /\ j < i
                                                 /\ ~get_angle_less(obj[lst[i]], obj[lst[j]])
                                                 /\ ~get_angle_less(obj[lst[j]], obj[lst[i]])})
    IN  [k \in 0..(n-1) |-> lst[CHOOSE i \in 0..(n-1) : rank(i) = k]]

\* np.roll(lst, shift).tolist(): result[i] = lst[(i - shift) mod n]
Roll(lst, shift) ==
    LET n == Len0(lst)
    IN  IF n = 0 THEN lst ELSE [i \in 0..(n-1) |-> lst[(i - shift) % n]]

----------------------------------------------------------------------------
(* SporeTree.  The object is the record of its fields; every method is an  *)
(* operator from the object before the call to the object after it, with   *)
(* the exception it raised (if any) in the field err.                      *)

Tree ==
    [children |-> children, gcObj |-> gcObj, grandchildren |-> grandchildren,
     sorted_grandchildren |-> sorted_grandchildren,
     pairing_candidate_map |-> pairing_candidate_map,
     children_created |-> children_created,
     grandchildren_created |-> grandchildren_created,
     grandchildren_sorted |-> grandchildren_sorted,
     mean_points |-> mean_points, err |-> NoError]

\* SporeTree.__init__ without dt arrays and without auto_create
NewTree ==
    [children |-> EmptyList, gcObj |-> [o \in ObjIds |-> NoObj],
     grandchildren |-> EmptyList, sorted_grandchildren |-> EmptyList,
     pairing_candidate_map |-> EmptyList,
     children_created |-> FALSE, grandchildren_created |-> FALSE,
     grandchildren_sorted |-> FALSE, mean_points |-> NoMeanPoints, err |-> NoError]

Raise(t, e) == [t EXCEPT !.err = e]

\* variant with the upper control bound for every child
controls_all_max == [i \in ChildIdx |-> get_control_bounds[2]]

\* lines 147-149: [forw_max, back_max, forw_min, back_min]
controls == [i \in ChildIdx |-> IF i < 2 THEN get_control_bounds[2] ELSE get_control_bounds[1]]
dt_signs == [i \in ChildIdx |-> IF i % 2 = 0 THEN 1 ELSE -1]
names == [i \in ChildIdx |-> <<IF i % 2 = 0 THEN "forw" ELSE "back",
                               IF i < 2 THEN "max" ELSE "min">>]

create_children(t, dt_children) ==
    IF Len0(dt_children) # NumChildren
    THEN Raise(t, [type |-> "AssertionError", where |-> "create_children"])
    ELSE [t EXCEPT
            !.children = [i \in ChildIdx |->
                LET signed_dt == dt_children[i] * dt_signs[i]
                IN  [position |-> Step(RootPosition, controls[i], signed_dt),
                     id |-> <<"child", i>>,
                     name |-> names[i],
                     parent_idx |-> None,
                     control |-> controls[i],
                     dt |-> signed_dt,
                     child_idx |-> i]],
            !.children_created = TRUE,
            !.err = NoError]

\* the dicts of a new grandchildren list are fresh objects: they take the
\* half of the object ids that sorted_grandchildren does not refer to
FreshBase(t) ==
    IF \E k \in DOMAIN t.sorted_grandchildren : t.sorted_grandchildren[k] < NumGC
    THEN NumGC ELSE 0

Referenced(t) == {t.sorted_grandchildren[k] : k \in DOMAIN t.sorted_grandchildren}
                 \cup {t.grandchildren[k] : k \in DOMAIN t.grandchildren}

\* objects no list refers to any more are dropped
Collect(t) == [t EXCEPT !.gcObj = [o \in ObjIds |->
                  IF o \in Referenced(t) THEN t.gcObj[o] ELSE NoObj]]

\* first grandchild of a parent runs forward (+dt), the second backward (-dt)
final_dt(local_idx, dt_positive) ==
    IF local_idx = 0 THEN dt_positive ELSE -dt_positive

\* variant that numbers a grandchild among those of its parent only
new_grandchild_numbered_locally(t, parent_idx, local_idx, grandchild_global_idx, dt_positive) ==
    LET parent == t.children[parent_idx]
        reversed_control == -parent.control
        fdt == final_dt(local_idx, dt_positive)
    IN  [alive |-> TRUE,
         position |-> Step(parent.position, reversed_control, fdt),
         id |-> <<"grandchild", parent_idx, local_idx>>,
         name |-> <<"gc", parent_idx, local_idx,
                    IF local_idx = 0 THEN "forward" ELSE "backward">>,
         parent_idx |-> parent_idx,
         local_idx |-> local_idx,
         global_idx |-> local_idx,
         control |-> reversed_control,
         dt |-> fdt,
         dt_abs |-> dt_positive]

\* lines 233-277: one grandchild, numbered by the counter of the two loops
new_grandchild(t, parent_idx, local_idx, grandchild_global_idx, dt_positive) ==
    LET parent == t.children[parent_idx]
        reversed_control == -parent.control
        fdt == final_dt(local_idx, dt_positive)
    IN  [alive |-> TRUE,
         position |-> Step(parent.position, reversed_control, fdt),
         id |-> <<"grandchild", parent_idx, local_idx>>,
         name |-> <<"gc", parent_idx, local_idx,
                    IF local_idx = 0 THEN "forward" ELSE "backward">>,
         parent_idx |-> parent_idx,
         local_idx |-> local_idx,
         global_idx |-> grandchild_global_idx,
         control |-> reversed_control,
         dt |-> fdt,
         dt_abs |-> dt_positive]

\* a filter that leaves out only the grandchild itself
candidate_except_self(current_grandchild, other_grandchild) ==
    other_grandchild.global_idx # current_grandchild.global_idx

\* a filter that lists the grandchildren of the earlier parents only
candidate_of_earlier_parent(current_grandchild, other_grandchild) ==
    other_grandchild.parent_idx < current_grandchild.parent_idx

\* a grandchild is a candidate of another one when their parents differ
is_candidate(current_grandchild, other_grandchild) ==
    other_grandchild.parent_idx # current_grandchild.parent_idx

\* sorted(candidates): the k-th smallest element of a set of numbers
SortedList(S) ==
    [k \in 0..(Cardinality(S) - 1) |->
        CHOOSE x \in S : Cardinality({y \in S : y < x}) = k]

create_pairing_candidate_map(t) ==
    LET objs == {t.gcObj[t.grandchildren[k]] : k \in DOMAIN t.grandchildren}
        keys == {g.global_idx : g \in objs}
        last(key) == \* a later grandchild with the same global_idx overwrites
            LET ks == {k \in DOMAIN t.grandchildren :
                          t.gcObj[t.grandchildren[k]].global_idx = key}
            IN  t.gcObj[t.grandchildren[CHOOSE k \in ks : \A j \in ks : j <= k]]
    IN  [t EXCEPT !.pairing_candidate_map =
            [key \in keys |->
                SortedList({g.global_idx : g \in {o \in objs : is_candidate(last(key), o)}})]]

\* variant that leaves the candidate map as it was
create_grandchildren_keeping_map(t, dt_grandchildren) ==
    IF ~t.children_created
    THEN Raise(t, [type |-> "RuntimeError", where |-> "create_grandchildren"])
    ELSE IF Len0(dt_grandchildren) # NumGC
    THEN Raise(t, [type |-> "AssertionError", where |-> "create_grandchildren"])
    ELSE
      LET base == FreshBase(t)
          t1 == [t EXCEPT
                   !.grandchildren = [g \in GcIdx |-> base + g],
                   !.gcObj = [o \in ObjIds |->
                       IF o \in base..(base + NumGC - 1)
                       THEN new_grandchild(t, (o - base) \div GcPerChild,
                                           (o - base) % GcPerChild, o - base,
                                           dt_grandchildren[o - base])
                       ELSE t.gcObj[o]],
                   !.grandchildren_created = TRUE,
                   !.err = NoError]
      IN  Collect(t1)

\* SporeTree.create_grandchildren, lines 189-292
create_grandchildren(t, dt_grandchildren) ==
    IF ~t.children_created
    THEN Raise(t, [type |-> "RuntimeError", where |-> "create_grandchildren"])
    ELSE IF Len0(dt_grandchildren) # NumGC
    THEN Raise(t, [type |-> "AssertionError", where |-> "create_grandchildren"])
    ELSE
      LET base == FreshBase(t)
          t1 == [t EXCEPT
                   !.grandchildren = [g \in GcIdx |-> base + g],
                   !.gcObj = [o \in ObjIds |->
                       IF o \in base..(base + NumGC - 1)
                       THEN new_grandchild(t, (o - base) \div GcPerChild,
                                           (o - base) % GcPerChild, o - base,
                                           dt_grandchildren[o - base])
                       ELSE t.gcObj[o]],
                   !.grandchildren_created = TRUE,
                   !.err = NoError]
      IN  create_pairing_candidate_map(Collect(t1))

\* SporeTree.__init__ with dt arrays: children first, then grandchildren
create_tree_from_dt_arrays(t, dt_children, dt_grandchildren) ==
    IF Len0(dt_children) # NumChildren \/ Len0(dt_grandchildren) # NumGC
    THEN Raise(t, [type |-> "AssertionError", where |-> "_create_tree_from_dt_arrays"])
    ELSE create_grandchildren(create_children(t, dt_children), dt_grandchildren)

\* SporeTree.reset
reset(t) ==
    Collect([t EXCEPT !.children = EmptyList, !.grandchildren = EmptyList,
                      !.sorted_grandchildren = EmptyList,
                      !.children_created = FALSE,
                      !.grandchildren_created = FALSE,
                      !.grandchildren_sorted = FALSE,
                      !.err = NoError])

\* SporeTree.reset_for_optimization
reset_for_optimization(t) ==
    [t EXCEPT !.children_created = FALSE, !.grandchildren_created = FALSE,
              !.grandchildren_sorted = FALSE, !.err = NoError]

----------------------------------------------------------------------------
(* SporeTree.sort_and_pair_grandchildren *)

\* index of the first grandchild of parent 0 in the sorted list (0 if none)
roll_offset(sorted_gc, obj) ==
    LET hits == {i \in DOMAIN sorted_gc : obj[sorted_gc[i]].parent_idx = 0}
    IN  IF hits = {} THEN 0 ELSE CHOOSE i \in hits : \A j \in hits : i <= j

\* steps 2-4: bring a grandchild of parent 0 to the front; when the next
\* entry is of parent 0 too, shift the list right by one
rotate_for_pairs(sorted_gc, obj) ==
    LET rolled == Roll(sorted_gc, -roll_offset(sorted_gc, obj))
    IN  IF Len0(rolled) >= 2 /\ obj[rolled[1]].parent_idx = 0
        THEN Roll(rolled, 1)
        ELSE rolled

PairIdx == 0..(NumPairs - 1)

\* step 5: what the assert of pair pair_idx finds
pair_missing(sorted_gc, pair_idx) ==
    ~(pair_idx * 2 < Len0(sorted_gc) /\ pair_idx * 2 + 1 < Len0(sorted_gc))

pair_same_parent(sorted_gc, obj, pair_idx) ==
    /\ ~pair_missing(sorted_gc, pair_idx)
    /\ obj[sorted_gc[pair_idx * 2]].parent_idx = obj[sorted_gc[pair_idx * 2 + 1]].parent_idx

pair_fails(sorted_gc, obj, pair_idx) ==
    pair_missing(sorted_gc, pair_idx) \/ pair_same_parent(sorted_gc, obj, pair_idx)

\* the AssertionError of the first failing pair, with the text of its message
pair_error(sorted_gc, obj, pair_idx) ==
    IF pair_missing(sorted_gc, pair_idx)
    THEN [type |-> "AssertionError", where |-> "sort_and_pair_grandchildren",
          what |-> "not enough grandchildren", pair_idx |-> pair_idx,
          idx1 |-> pair_idx * 2, idx2 |-> pair_idx * 2 + 1,
          have |-> Len0(sorted_gc)]
    ELSE [type |-> "AssertionError", where |-> "sort_and_pair_grandchildren",
          what |-> "same parent", pair_idx |-> pair_idx,
          idx1 |-> pair_idx * 2, idx2 |-> pair_idx * 2 + 1,
          name1 |-> obj[sorted_gc[pair_idx * 2]].name,
          name2 |-> obj[sorted_gc[pair_idx * 2 + 1]].name,
          parent1 |-> obj[sorted_gc[pair_idx * 2]].parent_idx,
          parent2 |-> obj[sorted_gc[pair_idx * 2 + 1]].parent_idx]

\* step 6: the result is stored only when no assert fired
store_sorted(t, sorted_gc) ==
    [t EXCEPT !.sorted_grandchildren = sorted_gc,
              !.grandchildren_sorted = TRUE,
              !.err = NoError]

\* variant without step 5: the rotated list is stored whatever its pairs are
sort_and_pair_unchecked(t) ==
    IF ~t.grandchildren_created
    THEN Raise(t, [type |-> "RuntimeError", where |-> "sort_and_pair_grandchildren"])
    ELSE Collect(store_sorted(t, rotate_for_pairs(SortedByAngleDesc(t.grandchildren, t.gcObj),
                                                  t.gcObj)))

sort_and_pair_grandchildren(t) ==
    IF ~t.grandchildren_created
    THEN Raise(t, [type |-> "RuntimeError", where |-> "sort_and_pair_grandchildren"])
    ELSE
      LET sorted_gc == rotate_for_pairs(SortedByAngleDesc(t.grandchildren, t.gcObj), t.gcObj)
          failing == {k \in PairIdx : pair_fails(sorted_gc, t.gcObj, k)}
      IN  IF failing # {}
          THEN Raise(t, pair_error(sorted_gc, t.gcObj,
                                   CHOOSE k \in failing : \A j \in failing : k <= j))
          ELSE Collect(store_sorted(t, sorted_gc))

----------------------------------------------------------------------------
(* Mean points of the index pairs (0,1), (2,3), (4,5), (6,7).  All         *)
(* coordinates the model produces are even, so the halving is exact.       *)

mean_point(pos1, pos2) == <<(pos1[1] + pos2[1]) \div 2, (pos1[2] + pos2[2]) \div 2>>

pair_means(t) ==
    [pair_idx \in PairIdx |->
        mean_point(t.gcObj[t.sorted_grandchildren[pair_idx * 2]].position,
                   t.gcObj[t.sorted_grandchildren[pair_idx * 2 + 1]].position)]

\* variant without the test of the sorted flag
calculate_mean_points_unchecked(t) ==
    IF Len0(t.sorted_grandchildren) # NumGC
    THEN Raise(t, [type |-> "AssertionError", where |-> "calculate_mean_points"])
    ELSE [t EXCEPT !.mean_points = pair_means(t), !.err = NoError]

\* SporeTree.calculate_mean_points
calculate_mean_points(t) ==
    IF ~t.grandchildren_sorted
    THEN Raise(t, [type |-> "RuntimeError", where |-> "calculate_mean_points"])
    ELSE IF Len0(t.sorted_grandchildren) # NumGC
    THEN Raise(t, [type |-> "AssertionError", where |-> "calculate_mean_points"])
    ELSE [t EXCEPT !.mean_points = pair_means(t), !.err = NoError]

----------------------------------------------------------------------------
(* SporeTree.update_positions *)

\* a sign rule that takes every spore for a forward one
dt_sign_forward(dt) == 1

\* the direction of a spore is read back from the sign of its stored dt
dt_sign(dt) == IF dt > 0 THEN 1 ELSE -1

\* an update that integrates on from the place the child stands at
update_child_from_current(child, dt_children) ==
    LET signed_dt == dt_children[child.child_idx] * dt_sign(child.dt)
    IN  [child EXCEPT !.dt = signed_dt,
                      !.position = Step(child.position, child.control, signed_dt)]

update_child(child, dt_children) ==
    LET signed_dt == dt_children[child.child_idx] * dt_sign(child.dt)
    IN  [child EXCEPT !.dt = signed_dt,
                      !.position = Step(RootPosition, child.control, signed_dt)]

update_grandchild(gc, child_positions, dt_grandchildren) ==
    LET signed_dt == dt_grandchildren[gc.global_idx] * dt_sign(gc.dt)
    IN  [gc EXCEPT !.dt = signed_dt,
                   !.dt_abs = Abs(signed_dt),
                   !.position = Step(child_positions[gc.parent_idx], gc.control, signed_dt)]

\* stages 1 and 2: the children, then the grandchildren of the current list
move_spores(t, dt_children, dt_grandchildren) ==
    LET new_children == [i \in ChildIdx |-> update_child(t.children[i], dt_children)]
        child_positions == [i \in ChildIdx |-> new_children[i].position]
        current == {t.grandchildren[k] : k \in DOMAIN t.grandchildren}
    IN  [t EXCEPT
           !.children = new_children,
           !.gcObj = [o \in ObjIds |->
               IF o \in current
               THEN update_grandchild(t.gcObj[o], child_positions, dt_grandchildren)
               ELSE t.gcObj[o]],
           !.err = NoError]

\* stage 3: the mean points of the stored index pairs
recompute_means(t) == [t EXCEPT !.mean_points = pair_means(t)]

\* an update that sorts the moved grandchildren again
update_positions_and_sort(t, dt_children, dt_grandchildren) ==
    IF ~t.grandchildren_sorted
    THEN Raise(t, [type |-> "AssertionError", where |-> "update_positions"])
    ELSE recompute_means(sort_and_pair_unchecked(
             move_spores(t, dt_children, dt_grandchildren)))

update_positions(t, dt_children, dt_grandchildren) ==
    IF ~t.grandchildren_sorted
    THEN Raise(t, [type |-> "AssertionError", where |-> "update_positions"])
    ELSE recompute_means(move_spores(t, dt_children, dt_grandchildren))

----------------------------------------------------------------------------
(* TreeEvaluator *)

NewEvaluator == [initialised |-> FALSE, last_dt |-> EmptyList]

dt_children_of(dt_all) == [i \in ChildIdx |-> dt_all[i]]
dt_grandchildren_of(dt_all) == [i \in GcIdx |-> dt_all[NumChildren + i]]

\* np.allclose(a, b): every entry within the comparison tolerance
allclose(a, b) ==
    /\ DOMAIN a = DOMAIN b
    /\ \A i \in DOMAIN a : Abs(a[i] - b[i]) <= AllCloseTol

\* first call: create children and grandchildren, fix the order
first_build(t, dt_all) ==
    LET t1 == create_children(t, dt_children_of(dt_all))
        t2 == create_grandchildren(t1, dt_grandchildren_of(dt_all))
        t3 == sort_and_pair_grandchildren(t2)
    IN  IF t3.err # NoError THEN t3 ELSE calculate_mean_points(t3)

\* later calls: positions only
later_build(t, e, dt_all) ==
    IF ~allclose(dt_all, e.last_dt)
    THEN update_positions(t, dt_children_of(dt_all), dt_grandchildren_of(dt_all))
    ELSE [t EXCEPT !.err = NoError]

\* an evaluator that builds the tree anew on every call
rebuild_always(t, e, dt_all) ==
    LET t1 == first_build(t, dt_all)
    IN  [tree |-> t1,
         ev   |-> IF t1.err # NoError THEN e
                  ELSE [initialised |-> TRUE, last_dt |-> dt_all]]

\* TreeEvaluator._build_if_needed: the tree and the evaluator after the call;
\* an exception leaves _initialised and _last_dt as they were
build_if_needed(t, e, dt_all) ==
    LET t1 == IF ~e.initialised THEN first_build(t, dt_all) ELSE later_build(t, e, dt_all)
    IN  [tree |-> t1,
         ev   |-> IF t1.err # NoError THEN e
                  ELSE [initialised |-> TRUE, last_dt |-> dt_all]]

----------------------------------------------------------------------------
(* The dt-vectors supplied by an optimiser: 12 positive magnitudes.  An     *)
(* iterate has a common value b; a forward-difference probe moves one      *)
(* grandchild entry to b + 1, which is within the tolerance of np.allclose *)
(* of the iterate, while two iterates are further apart than that.  A      *)
(* second probe moves the first grandchild entry to b + 2: it is within    *)
(* the tolerance of the first probe but not of the iterate.                *)

DtBases == {DtStep * j : j \in 1..MaxDt}
DtIdx == 0..(NumChildren + NumGC - 1)

DtVector(b, k, v) == [i \in DtIdx |-> IF i = NumChildren + k THEN v ELSE b]
Probes(b) == {DtVector(b, k, v) : k \in GcIdx, v \in {b, b + 1}}
                 \cup {DtVector(b, 0, b + 2 * AllCloseTol)}
DtVectors == UNION {Probes(b) : b \in DtBases}

----------------------------------------------------------------------------
(* Specification Spec: one SporeTree driven through a TreeEvaluator, as in *)
(* run_grandchildren_optimization.py.                                      *)

vars == <<children, gcObj, grandchildren, sorted_grandchildren,
          pairing_candidate_map, children_created, grandchildren_created,
          grandchildren_sorted, mean_points, err, op, ev, matcher, pairopt, areaopt, config, pipeline, finder>>

\* a component that takes no part in a specification stays idle
Idle == [state |-> "idle"]

\* dt_grandchildren_factor is a fraction: it is held as a number of quarters
FactorDen == 4

\* the config of the trees that are built on dt arrays: root at the origin of
\* the model's coordinates, dt_base one grid step, grandchildren as long as
\* children
DefaultConfig ==
    [initial_position |-> <<0, 0>>, dt_base |-> DtStep,
     dt_grandchildren_factor |-> FactorDen, optimization_method |-> "SLSQP"]

SetTree(t) ==
    /\ children' = t.children
    /\ gcObj' = t.gcObj
    /\ grandchildren' = t.grandchildren
    /\ sorted_grandchildren' = t.sorted_grandchildren
    /\ pairing_candidate_map' = t.pairing_candidate_map
    /\ children_created' = t.children_created
    /\ grandchildren_created' = t.grandchildren_created
    /\ grandchildren_sorted' = t.grandchildren_sorted
    /\ mean_points' = t.mean_points
    /\ err' = t.err

TreeIs(t) ==
    /\ children = t.children
    /\ gcObj = t.gcObj
    /\ grandchildren = t.grandchildren
    /\ sorted_grandchildren = t.sorted_grandchildren
    /\ pairing_candidate_map = t.pairing_candidate_map
    /\ children_created = t.children_created
    /\ grandchildren_created = t.grandchildren_created
    /\ grandchildren_sorted = t.grandchildren_sorted
    /\ mean_points = t.mean_points
    /\ err = t.err

Init ==
    /\ config = DefaultConfig
    /\ pipeline = Idle /\ finder = Idle
    /\ TreeIs(NewTree)
    /\ op = [name |-> "init"]
    /\ ev = NewEvaluator
    /\ matcher = Idle /\ pairopt = Idle /\ areaopt = Idle

\* the dt-vector the spores of a tree stand at
tree_dt(t) ==
    [i \in DtIdx |->
        IF i < NumChildren THEN Abs(t.children[i].dt)
        ELSE t.gcObj[t.grandchildren[i - NumChildren]].dt_abs]

\* the branch of _build_if_needed a call takes
branch_taken(e, dt_all) ==
    IF ~e.initialised THEN "build"
    ELSE IF ~allclose(dt_all, e.last_dt) THEN "update" ELSE "skip"

\* op records the call: its name, its dt-vector, the branch it took and
\* whether the tree already stood at that dt-vector
Evaluate(name, dt_all) ==
    LET r == build_if_needed(Tree, ev, dt_all)
    IN  /\ SetTree(r.tree)
        /\ ev' = r.ev
        /\ op' = [name |-> name, dt |-> dt_all,
                  branch |-> branch_taken(ev, dt_all),
                  same |-> ev.initialised /\ dt_all = tree_dt(Tree)]
        /\ UNCHANGED <<matcher, pairopt, areaopt, config, pipeline, finder>>

\* TreeEvaluator.area
EvalArea == \E dt_all \in DtVectors : Evaluate("area", dt_all)

\* TreeEvaluator.pair_distances
EvalPairDistances == \E dt_all \in DtVectors : Evaluate("pair_distances", dt_all)

\* TreeEvaluator.calculate_loss_components
EvalLossComponents == \E dt_all \in DtVectors : Evaluate("calculate_loss_components", dt_all)

Next == EvalArea \/ EvalPairDistances \/ EvalLossComponents

Spec == Init /\ [][Next]_vars

----------------------------------------------------------------------------
(* Specification SpecTree: a SporeTree constructed from dt arrays and then  *)
(* used directly: sorted, averaged, updated.  The children get one         *)
(* magnitude for children 0 and 3 and one for children 1 and 2; the        *)
(* grandchildren get the smallest magnitude with one entry moved off it.   *)

ChildDts == {[i \in ChildIdx |-> IF i \in {0, 3} THEN a ELSE b] : a \in DtBases, b \in DtBases}

GrandchildDts == {[i \in GcIdx |-> IF i = k THEN v ELSE DtStep] :
                    k \in GcIdx, v \in DtBases}

InitTree ==
    /\ config = DefaultConfig
    /\ pipeline = Idle /\ finder = Idle
    /\ \E dt_children \in ChildDts : \E dt_grandchildren \in GrandchildDts :
          /\ TreeIs(create_tree_from_dt_arrays(NewTree, dt_children, dt_grandchildren))
          /\ op = [name |-> "init", dt_children |-> dt_children,
                   dt_grandchildren |-> dt_grandchildren]
    /\ ev = NewEvaluator
    /\ matcher = Idle /\ pairopt = Idle /\ areaopt = Idle

\* SporeTree.sort_and_pair_grandchildren
SortAndPairGrandchildren ==
    /\ SetTree(sort_and_pair_grandchildren(Tree))
    /\ op' = [name |-> "sort_and_pair_grandchildren"]
    /\ UNCHANGED <<ev, matcher, pairopt, areaopt, config, pipeline, finder>>

\* SporeTree.calculate_mean_points
CalculateMeanPoints ==
    /\ SetTree(calculate_mean_points(Tree))
    /\ op' = [name |-> "calculate_mean_points"]
    /\ UNCHANGED <<ev, matcher, pairopt, areaopt, config, pipeline, finder>>

\* SporeTree.update_positions
UpdatePositions ==
    \E dt_all \in DtVectors :
        /\ SetTree(update_positions(Tree, dt_children_of(dt_all), dt_grandchildren_of(dt_all)))
        /\ op' = [name |-> "update_positions"]
        /\ UNCHANGED <<ev, matcher, pairopt, areaopt, config, pipeline, finder>>

NextTree == SortAndPairGrandchildren \/ CalculateMeanPoints \/ UpdatePositions

SpecTree == InitTree /\ [][NextTree]_vars

----------------------------------------------------------------------------
(* extract_pairs_from_chronology, in its two versions: pairs/ (closest      *)
(* grandchild, immediate accept below the 1e-6 threshold) and pairs_3/     *)
(* (first grandchild in the chronology).  A chronology maps a grandchild   *)
(* index to its meetings in the order of meeting_time; distances are       *)
(* counted in units of the threshold.                                      *)

MaxGc == 4          \* grandchildren that have a chronology: 0..MaxGc-1
MaxMeetings == 2    \* longest chronology of one grandchild
MaxDist == 1         \* largest meeting distance (0 is below the threshold)

UltraClose == 1     \* the 1e-6 threshold

MatchKeys == 0..(MaxGc - 1)
parent_of(gc_idx) == gc_idx \div GcPerChild

NoMeeting == [type |-> "none"]

\* the meetings the chronology builders can produce for one grandchild: with
\* every other grandchild and with every parent that is not its own
Meetings(gc_idx) ==
    {[type |-> "grandchild", partner_idx |-> p, distance |-> d] :
        p \in MatchKeys \ {gc_idx}, d \in 0..MaxDist}
    \cup
    {[type |-> "parent", partner_idx |-> q, distance |-> d] :
        q \in {parent_of(k) : k \in MatchKeys} \ {parent_of(gc_idx)}, d \in 0..MaxDist}

\* one entry per partner, in chronological order
MeetingLists(gc_idx) ==
    UNION {{l \in [1..n -> Meetings(gc_idx)] :
              \A i, j \in 1..n : i # j =>
                  <<l[i].type, l[i].partner_idx>> # <<l[j].type, l[j].partner_idx>>} :
           n \in 0..MaxMeetings}

\* variant that takes the first grandchild meeting with a free partner,
\* whatever its distance
RECURSIVE scan_first_available(_, _, _, _)
scan_first_available(meetings, i, best_grandchild_meeting, used_grandchildren) ==
    IF i > Len(meetings) THEN best_grandchild_meeting
    ELSE IF /\ meetings[i].type = "grandchild"
            /\ meetings[i].partner_idx \notin used_grandchildren
         THEN meetings[i]
         ELSE scan_first_available(meetings, i + 1, best_grandchild_meeting,
                                   used_grandchildren)

\* variant that scans on past a parent met below the threshold
RECURSIVE scan_past_parents(_, _, _, _)
scan_past_parents(meetings, i, best_grandchild_meeting, used_grandchildren) ==
    IF i > Len(meetings) THEN best_grandchild_meeting
    ELSE
      LET meeting == meetings[i]
      IN  IF meeting.type = "grandchild" /\ meeting.partner_idx \notin used_grandchildren
          THEN LET best == IF \/ best_grandchild_meeting = NoMeeting
                              \/ meeting.distance < best_grandchild_meeting.distance
                           THEN meeting ELSE best_grandchild_meeting
               IN  IF meeting.distance < UltraClose
                   THEN meeting
                   ELSE scan_past_parents(meetings, i + 1, best, used_grandchildren)
          ELSE scan_past_parents(meetings, i + 1, best_grandchild_meeting,
                                 used_grandchildren)

\* pairs/: the meeting selected for a grandchild, or NoMeeting
RECURSIVE smart_scan(_, _, _, _)
smart_scan(meetings, i, best_grandchild_meeting, used_grandchildren) ==
    IF i > Len(meetings) THEN best_grandchild_meeting
    ELSE
      LET meeting == meetings[i]
      IN  IF meeting.type = "grandchild"
          THEN IF meeting.partner_idx \notin used_grandchildren
               THEN LET best == IF \/ best_grandchild_meeting = NoMeeting
                                   \/ meeting.distance < best_grandchild_meeting.distance
                                THEN meeting ELSE best_grandchild_meeting
                    IN  IF meeting.distance < UltraClose
                        THEN meeting
                        ELSE smart_scan(meetings, i + 1, best, used_grandchildren)
               ELSE smart_scan(meetings, i + 1, best_grandchild_meeting, used_grandchildren)
          ELSE IF meeting.distance < UltraClose
               THEN best_grandchild_meeting
               ELSE smart_scan(meetings, i + 1, best_grandchild_meeting, used_grandchildren)

\* pairs_3/: the first grandchild meeting whose partner is still free
RECURSIVE first_scan(_, _, _)
first_scan(meetings, i, used_grandchildren) ==
    IF i > Len(meetings) THEN NoMeeting
    ELSE IF /\ meetings[i].type = "grandchild"
            /\ meetings[i].partner_idx \notin used_grandchildren
         THEN meetings[i]
         ELSE first_scan(meetings, i + 1, used_grandchildren)

NewMatcher(variant) == [variant |-> variant, pos |-> 0, used |-> {}, pairs |-> <<>>]

\* variant that marks only the grandchild being processed as used
pair_without_partner_mark(mt, gc_idx, selected_meeting) ==
    [mt EXCEPT !.pairs = Append(@, [gc_idx |-> gc_idx,
                                    partner_idx |-> selected_meeting.partner_idx,
                                    meeting |-> selected_meeting]),
               !.used = @ \cup {gc_idx}]

\* the pair is appended and both its members are marked as used
make_pair(mt, gc_idx, selected_meeting) ==
    [mt EXCEPT !.pairs = Append(@, [gc_idx |-> gc_idx,
                                    partner_idx |-> selected_meeting.partner_idx,
                                    meeting |-> selected_meeting]),
               !.used = @ \cup {gc_idx, selected_meeting.partner_idx}]

\* one iteration of the loop over sorted(chronology.keys())
process_grandchild(mt, meetings) ==
    LET gc_idx == mt.pos
        selected_meeting ==
            IF mt.variant = "pairs"
            THEN smart_scan(meetings, 1, NoMeeting, mt.used)
            ELSE first_scan(meetings, 1, mt.used)
        next == [mt EXCEPT !.pos = @ + 1]
    IN  IF gc_idx \in mt.used THEN next
        ELSE IF selected_meeting # NoMeeting THEN make_pair(next, gc_idx, selected_meeting)
        ELSE next

----------------------------------------------------------------------------
(* Specification SpecExtract: one call of extract_pairs_from_chronology;   *)
(* the chronology of a grandchild is drawn when the loop reaches it.       *)

InitExtract ==
    /\ config = DefaultConfig
    /\ pipeline = Idle /\ finder = Idle
    /\ TreeIs(NewTree)
    /\ op = [name |-> "init"]
    /\ ev = NewEvaluator
    /\ matcher \in {NewMatcher(v) : v \in {"pairs", "pairs_3"}}
    /\ pairopt = Idle /\ areaopt = Idle

ExtractStep(variant) ==
    /\ matcher # Idle
    /\ matcher.variant = variant
    /\ matcher.pos < MaxGc
    /\ \E meetings \in MeetingLists(matcher.pos) :
          matcher' = process_grandchild(matcher, meetings)
    /\ op' = [name |-> "extract_pairs_from_chronology", gc_idx |-> matcher.pos]
    /\ UNCHANGED <<treeVars, err, ev, pairopt, areaopt, config, pipeline, finder>>

\* pairs/extract_pairs_from_chronology.py
ExtractSmart == ExtractStep("pairs")

\* pairs_3/extract_pairs_from_chronology.py
ExtractFirst == ExtractStep("pairs_3")

NextExtract == ExtractSmart \/ ExtractFirst

SpecExtract == InitExtract /\ [][NextExtract]_vars

----------------------------------------------------------------------------
(* optimize_grandchild_pair_distance.  Distances are kept as the integer   *)
(* q = dx*dx + 4*dw*dw of a position difference (four times the squared    *)
(* norm, since x = 2*theta), which orders them as the norm does.  What     *)
(* scipy's minimize returns is not determined by this code: every method   *)
(* may return any point and any value, or raise.                           *)

MaxX == 3           \* solvers return dt values in -MaxX..MaxX

MinDt == 1          \* the lower adaptive bound 0.001
CeilingDivisor == 10
HugeDistance == 100000
NaN == -1           \* the value of a distance that is not a number
Inf == 1000000      \* float('inf')
NoRoot == <<>>      \* root_position = None
NoBounds == <<>>    \* dt_bounds = None

Quad(a, b) == (a[1] - b[1]) * (a[1] - b[1]) + 4 * (a[2] - b[2]) * (a[2] - b[2])

\* a < b and a <= b on distances; any comparison with NaN is false
Lt(a, b) == a # NaN /\ b # NaN /\ a < b
Le(a, b) == a # NaN /\ b # NaN /\ a <= b

Min(S) == CHOOSE x \in S : \A y \in S : x <= y
Max(S) == CHOOSE x \in S : \A y \in S : y <= x

\* lines 14-24: q of the smallest root-child distance; no ceiling without root
min_parent_distance(t, root_position) ==
    IF root_position = NoRoot THEN NaN
    ELSE Min({Quad(t.children[i].position, root_position) : i \in ChildIdx})

\* distance <= min_parent_distance / 10
within_constraint(q, min_parent_q) ==
    q # NaN /\ CeilingDivisor * CeilingDivisor * q <= min_parent_q

\* lines 31-35: the bounds given, or (0.001, 2 * largest child time)
effective_dt_bounds(t, dt_bounds) ==
    IF dt_bounds = NoBounds
    THEN <<MinDt, 2 * Max({Abs(t.children[i].dt) : i \in ChildIdx})>>
    ELSE dt_bounds

\* lines 49-61: a backward grandchild gets the mirrored interval
branch_bounds(original_dt, dt_bounds) ==
    IF original_dt > 0 THEN dt_bounds ELSE <<-dt_bounds[2], -dt_bounds[1]>>

in_bounds(bounds, x) == bounds[1] <= x /\ x <= bounds[2]

\* lines 69-86
distance_function(t, gc_i, gc_j, dt_i, dt_j) ==
    Quad(Step(t.children[gc_i.parent_idx].position, gc_i.control, dt_i),
         Step(t.children[gc_j.parent_idx].position, gc_j.control, dt_j))

PairOptMethods == <<"L-BFGS-B", "Nelder-Mead", "Powell">>

NoBest == [method |-> "none", x |-> <<0, 0>>, distance |-> Inf]

\* the state of one call after lines 10-108
start_pair_optimization(t, gc_i_idx, gc_j_idx, dt_bounds, root_position) ==
    LET gc_i == t.gcObj[t.grandchildren[gc_i_idx]]
        gc_j == t.gcObj[t.grandchildren[gc_j_idx]]
        bounds == effective_dt_bounds(t, dt_bounds)
    IN  [state |-> "running",
         gc_i_idx |-> gc_i_idx, gc_j_idx |-> gc_j_idx,
         root_position |-> root_position,
         dt_bounds |-> dt_bounds,
         min_parent_distance |-> min_parent_distance(t, root_position),
         original_dt_i |-> gc_i.dt, original_dt_j |-> gc_j.dt,
         dt_i_bounds |-> branch_bounds(gc_i.dt, bounds),
         dt_j_bounds |-> branch_bounds(gc_j.dt, bounds),
         pos |-> 1, best |-> NoBest, passed |-> {}]

\* lines 161-166: the distance a returned point is judged by
test_distance(t, po, result) ==
    IF po.root_position # NoRoot
    THEN distance_function(t, t.gcObj[t.grandchildren[po.gc_i_idx]],
                           t.gcObj[t.grandchildren[po.gc_j_idx]], result.x[1], result.x[2])
    ELSE result.fun

\* variant of the acceptance test that does not look at the distance ceiling
accepts_without_ceiling(t, po, result) ==
    /\ in_bounds(po.dt_i_bounds, result.x[1])
    /\ in_bounds(po.dt_j_bounds, result.x[2])
    /\ Lt(test_distance(t, po, result), po.best.distance)

\* lines 154-182: bounds checked by hand, ceiling, strictly better
accepts(t, po, result) ==
    /\ in_bounds(po.dt_i_bounds, result.x[1])
    /\ in_bounds(po.dt_j_bounds, result.x[2])
    /\ (po.root_position # NoRoot =>
            within_constraint(test_distance(t, po, result), po.min_parent_distance))
    /\ Lt(test_distance(t, po, result), po.best.distance)

\* lines 155-166: the two checks made by hand on a returned point
bounds_ok(po, result) ==
    in_bounds(po.dt_i_bounds, result.x[1]) /\ in_bounds(po.dt_j_bounds, result.x[2])

distance_ok(t, po, result) ==
    po.root_position # NoRoot =>
        within_constraint(test_distance(t, po, result), po.min_parent_distance)

\* variant of the loop body that takes a point only from a solver that
\* reported success
try_method_trusting_solver(t, po, result) ==
    LET next == [po EXCEPT !.pos = @ + 1]
        checked == IF bounds_ok(po, result) /\ distance_ok(t, po, result)
                   THEN [next EXCEPT !.passed = @ \cup {test_distance(t, po, result)}]
                   ELSE next
    IN  IF result.raised THEN next
        ELSE IF result.success /\ accepts(t, po, result)
        THEN [checked EXCEPT !.best = [method |-> PairOptMethods[po.pos], x |-> result.x,
                                       distance |-> test_distance(t, po, result)]]
        ELSE checked

\* lines 110-205: one method of the loop; a raising method is skipped.  The
\* field passed keeps the distances of the points that passed both checks.
try_method(t, po, result) ==
    LET next == [po EXCEPT !.pos = @ + 1]
        checked == IF bounds_ok(po, result) /\ distance_ok(t, po, result)
                   THEN [next EXCEPT !.passed = @ \cup {test_distance(t, po, result)}]
                   ELSE next
    IN  IF result.raised THEN next
        ELSE IF accepts(t, po, result)
        THEN [checked EXCEPT !.best = [method |-> PairOptMethods[po.pos], x |-> result.x,
                                       distance |-> test_distance(t, po, result)]]
        ELSE checked

\* variant that finds no time at fault
no_direction_check(original_dt, optimal_dt) == FALSE

\* lines 233-241
time_direction_violation(original_dt, optimal_dt) ==
    \/ original_dt > 0 /\ optimal_dt <= 0
    \/ original_dt < 0 /\ optimal_dt >= 0

\* lines 217-286
pair_optimization_result(po) ==
    IF po.best # NoBest /\ Lt(po.best.distance, HugeDistance)
    THEN IF ~in_bounds(po.dt_i_bounds, po.best.x[1])
         THEN [success |-> FALSE, error |-> "dt_i violation"]
         ELSE IF ~in_bounds(po.dt_j_bounds, po.best.x[2])
         THEN [success |-> FALSE, error |-> "dt_j violation"]
         ELSE IF time_direction_violation(po.original_dt_i, po.best.x[1])
         THEN [success |-> FALSE, error |-> "time direction violation i"]
         ELSE IF time_direction_violation(po.original_dt_j, po.best.x[2])
         THEN [success |-> FALSE, error |-> "time direction violation j"]
         ELSE [success |-> TRUE, min_distance |-> po.best.distance,
               optimal_dt_i |-> po.best.x[1], optimal_dt_j |-> po.best.x[2],
               method_used |-> "enhanced_multi_method",
               passes_constraint |->
                   (po.root_position = NoRoot
                    \/ within_constraint(po.best.distance, po.min_parent_distance)),
               best_method |-> po.best.method]
    ELSE [success |-> FALSE, min_distance |-> Inf, method_used |-> "failed",
          passes_constraint |-> FALSE, error |-> "no_valid_solution"]

finish_pair_optimization(po) ==
    [po EXCEPT !.state = "done"] @@ [result |-> pair_optimization_result(po)]

----------------------------------------------------------------------------
(* Specification SpecPairOpt: one call of optimize_grandchild_pair_distance *)
(* on a tree built with the smallest magnitude everywhere.                 *)

PairOptTree ==
    create_tree_from_dt_arrays(NewTree, [i \in ChildIdx |-> DtStep], [i \in GcIdx |-> DtStep])

\* forward/backward, forward/forward, backward/forward, backward/backward
PairOptPairs == {<<0, 3>>, <<0, 2>>, <<1, 2>>, <<1, 3>>}

PairOptBounds == {NoBounds, <<0, MaxX - 1>>}

SolverResults ==
    {[raised |-> TRUE]}
    \cup {[raised |-> FALSE, success |-> success, x |-> <<a, b>>, fun |-> f] :
            success \in BOOLEAN, a \in -MaxX..MaxX, b \in -MaxX..MaxX,
            f \in {0, 1, HugeDistance, NaN}}

InitPairOpt ==
    /\ config = DefaultConfig
    /\ pipeline = Idle /\ finder = Idle
    /\ TreeIs(PairOptTree)
    /\ op = [name |-> "init"]
    /\ ev = NewEvaluator
    /\ matcher = Idle /\ areaopt = Idle
    /\ \E pair \in PairOptPairs : \E dt_bounds \in PairOptBounds :
       \E root_position \in {NoRoot, RootPosition} :
          pairopt = start_pair_optimization(PairOptTree, pair[1], pair[2],
                                            dt_bounds, root_position)

\* one scipy minimize call of the loop over the methods and its analysis
TryMethod ==
    /\ pairopt.state = "running"
    /\ pairopt.pos <= Len(PairOptMethods)
    /\ \E result \in SolverResults :
          /\ pairopt' = try_method(Tree, pairopt, result)
          /\ op' = IF result.raised
                   THEN [name |-> "minimize", method |-> PairOptMethods[pairopt.pos],
                         raised |-> TRUE]
                   ELSE [name |-> "minimize", method |-> PairOptMethods[pairopt.pos],
                         raised |-> FALSE, success |-> result.success,
                         bounds_ok |-> bounds_ok(pairopt, result),
                         distance_ok |-> distance_ok(Tree, pairopt, result)]
    /\ UNCHANGED <<treeVars, err, ev, matcher, areaopt, config, pipeline, finder>>

\* the result is formed and returned
ReturnPairResult ==
    /\ pairopt.state = "running"
    /\ pairopt.pos > Len(PairOptMethods)
    /\ pairopt' = finish_pair_optimization(pairopt)
    /\ op' = [name |-> "optimize_grandchild_pair_distance"]
    /\ UNCHANGED <<treeVars, err, ev, matcher, areaopt, config, pipeline, finder>>

NextPairOpt == TryMethod \/ ReturnPairResult

SpecPairOpt == InitPairOpt /\ [][NextPairOpt]_vars

----------------------------------------------------------------------------
(* optimize_tree_area: the area of the tree is maximised over the 12       *)
(* magnitudes under one distance constraint per pair.  Distances are kept  *)
(* as Quad values, the constraint distance is given on that scale, and     *)
(* the area is kept as the sum of the absolute cross products (twice the   *)
(* area in the coordinates of the model).                                  *)

ConstraintDistance == 1   \* constraint_distance on the scale of Quad
dt_base == config.dt_base
dt_grandchildren_factor == config.dt_grandchildren_factor

np_sign(x) == IF x > 0 THEN 1 ELSE IF x < 0 THEN -1 ELSE 0

NoneResult == [kind |-> "None"]

\* create_children() and create_grandchildren() without dt arrays
default_dt_children == [i \in ChildIdx |-> dt_base]
default_dt_grandchildren(t) ==
    [g \in GcIdx |->
        (Abs(t.children[g \div GcPerChild].dt) * dt_grandchildren_factor) \div FactorDen]

\* the tree after the two guarded create calls at the start
ensure_created(t) ==
    LET t1 == IF ~t.children_created THEN create_children(t, default_dt_children) ELSE t
    IN  IF t1.err # NoError THEN t1
        ELSE IF ~t1.grandchildren_created
        THEN create_grandchildren(t1, default_dt_grandchildren(t1))
        ELSE t1

\* TreeAreaEvaluator.area: positions from the structure of the tree, then the
\* triangles root - child - grandchild
\* variant that steps every branch forward in time
area_positions_forward(t, dt_vector) ==
    LET child_pos == [i \in ChildIdx |->
            Step(RootPosition, t.children[i].control, Abs(dt_vector[i]))]
    IN  [children |-> child_pos,
         grandchildren |-> [k \in DOMAIN t.grandchildren |->
            LET gc == t.gcObj[t.grandchildren[k]]
            IN  Step(child_pos[gc.parent_idx], gc.control,
                     Abs(dt_vector[NumChildren + k]))],
         parent_indices |-> [k \in DOMAIN t.grandchildren |->
            t.gcObj[t.grandchildren[k]].parent_idx]]

area_positions(t, dt_vector) ==
    LET child_pos == [i \in ChildIdx |->
            Step(RootPosition, t.children[i].control,
                 Abs(dt_vector[i]) * np_sign(t.children[i].dt))]
    IN  [children |-> child_pos,
         grandchildren |-> [k \in DOMAIN t.grandchildren |->
            LET gc == t.gcObj[t.grandchildren[k]]
            IN  Step(child_pos[gc.parent_idx], gc.control,
                     Abs(dt_vector[NumChildren + k]) * np_sign(gc.dt))],
         parent_indices |-> [k \in DOMAIN t.grandchildren |->
            t.gcObj[t.grandchildren[k]].parent_idx]]

triangle_area(p1, p2, p3) ==
    Abs(p1[1] * (p2[2] - p3[2]) + p2[1] * (p3[2] - p1[2]) + p3[1] * (p1[2] - p2[2]))

RECURSIVE calculate_total_area(_, _, _, _, _)
calculate_total_area(root_pos, children_pos, grandchildren_pos, parent_indices, i) ==
    IF i >= Len0(grandchildren_pos) THEN 0
    ELSE triangle_area(root_pos, children_pos[parent_indices[i]], grandchildren_pos[i])
         + calculate_total_area(root_pos, children_pos, grandchildren_pos, parent_indices, i + 1)

TreeAreaEvaluator_area(t, dt_vector) ==
    LET p == area_positions(t, dt_vector)
    IN  calculate_total_area(RootPosition, p.children, p.grandchildren, p.parent_indices, 0)

objective_function(t, dt_vector) == -TreeAreaEvaluator_area(t, dt_vector)

\* the grandchild that grandchildren_info holds under a global_idx
grandchild_info(t, global_idx) ==
    LET ks == {k \in DOMAIN t.grandchildren :
                  t.gcObj[t.grandchildren[k]].global_idx = global_idx}
    IN  t.gcObj[t.grandchildren[CHOOSE k \in ks : \A j \in ks : j <= k]]

\* position of a grandchild of a pair at dt_vector
constrained_position(t, gc_idx, dt_vector) ==
    LET gc == grandchild_info(t, gc_idx)
        parent == t.children[gc.parent_idx]
        parent_pos == Step(RootPosition, parent.control,
                           dt_vector[gc.parent_idx] * np_sign(parent.dt))
    IN  Step(parent_pos, gc.control, dt_vector[NumChildren + gc_idx] * np_sign(gc.dt))

\* constraint_distance - distance: not negative when the constraint holds
constraint_function(t, pair, dt_vector) ==
    ConstraintDistance - Quad(constrained_position(t, pair[1], dt_vector),
                              constrained_position(t, pair[2], dt_vector))

test_constraints(t, pairs, dt_vector) ==
    LET results == [i \in 1..Len(pairs) |->
            LET constraint_value == constraint_function(t, pairs[i], dt_vector)
            IN  [value |-> constraint_value,
                 satisfied |-> constraint_value >= 0,
                 distance |-> ConstraintDistance - constraint_value]]
    IN  [results |-> results,
         summary |-> [total_constraints |-> Len(pairs),
                      satisfied_count |-> Cardinality({i \in 1..Len(pairs) : results[i].satisfied}),
                      all_satisfied |-> \A i \in 1..Len(pairs) : results[i].satisfied]]

\* the magnitudes the tree stands at, children first
original_dt_vector(t) ==
    [i \in DtIdx |->
        IF i < NumChildren THEN Abs(t.children[i].dt)
        ELSE Abs(t.gcObj[t.grandchildren[i - NumChildren]].dt)]

\* scipy methods that take constraints; minimize() warns and drops the
\* constraints for the others
HandlesConstraints(method) == method \in {"SLSQP", "COBYLA", "trust-constr"}

\* the call up to the solver: input checks, the guarded create calls, the
\* evaluator, the original area; a dict of the call still running, or None
start_area_optimization(t, pairs, optimization_method, dt_bounds) ==
    IF Len(pairs) = 0 \/ Len0(t.grandchildren) = 0
    THEN [tree |-> t, ao |-> [state |-> "done", result |-> NoneResult]]
    ELSE
      LET t1 == ensure_created(t)
      IN  IF t1.err # NoError
          THEN [tree |-> [t1 EXCEPT !.err = NoError],
                ao |-> [state |-> "done", result |-> NoneResult]]
          ELSE [tree |-> t1,
                ao |-> [state |-> "minimize",
                        pairs |-> pairs, optimization_method |-> optimization_method,
                        dt_bounds |-> dt_bounds,
                        x0 |-> original_dt_vector(t1),
                        original_area |-> TreeAreaEvaluator_area(t1, original_dt_vector(t1))]]

\* what minimize() can hand back: an exception, a result without success,
\* or a point inside the bounds that is reported as a success; a method
\* that takes constraints reports success at feasible points only
within_bounds(dt_bounds, x) == \A i \in DOMAIN x : dt_bounds[1] <= x[i] /\ x[i] <= dt_bounds[2]

MinimizeResults(t, ao) ==
    {[raised |-> TRUE], [raised |-> FALSE, success |-> FALSE, message |-> "not converged"]}
    \cup {[raised |-> FALSE, success |-> TRUE, x |-> x, fun |-> objective_function(t, x)] :
            x \in {v \in DtVectors :
                     /\ within_bounds(ao.dt_bounds, v)
                     /\ HandlesConstraints(ao.optimization_method) =>
                            test_constraints(t, ao.pairs, v).summary.all_satisfied}}

minimize_returned(ao, optimization_result) ==
    IF optimization_result.raised
    THEN [state |-> "done", result |-> NoneResult]
    ELSE [ao EXCEPT !.state = "solved"] @@ [optimization_result |-> optimization_result]

\* the analysis of the solver's result and the dict that is returned
area_optimization_result(t, ao) ==
    LET r == ao.optimization_result
    IN  IF ~r.success
        THEN [kind |-> "dict", success |-> FALSE, error |-> r.message]
        ELSE
          LET optimized_area == -r.fun
              dt_children_opt == [i \in ChildIdx |-> Abs(r.x[i])]
              dt_grandchildren_opt == [i \in GcIdx |-> Abs(r.x[NumChildren + i])]
          IN  [kind |-> "dict", success |-> TRUE,
               optimized_area |-> optimized_area,
               original_area |-> ao.original_area,
               improvement |-> optimized_area - ao.original_area,
               optimized_dt_vector |-> r.x,
               optimized_dt_children |-> dt_children_opt,
               optimized_dt_grandchildren |-> dt_grandchildren_opt,
               optimized_tree |-> create_tree_from_dt_arrays(NewTree, dt_children_opt,
                                                             dt_grandchildren_opt),
               constraint_violations |-> test_constraints(t, ao.pairs, r.x),
               pairs_count |-> Len(ao.pairs),
               constraints_count |-> Len(ao.pairs)]

finish_area_optimization(t, ao) ==
    [state |-> "done", pairs |-> ao.pairs, result |-> area_optimization_result(t, ao)]

(* Specification SpecAreaOpt: one call of optimize_tree_area on a tree     *)
(* that the caller built (created, sorted, averaged) at a uniform          *)
(* dt-vector, on the same tree after reset_for_optimization, or on an      *)
(* empty tree.                                                             *)

BuiltTree(b) == first_build(NewTree, DtVector(b, 0, b))

AreaOptTreeKinds == {"built", "reset_for_optimization", "empty"}

AreaOptTree(b, kind) ==
    IF kind = "built" THEN BuiltTree(b)
    ELSE IF kind = "reset_for_optimization" THEN reset_for_optimization(BuiltTree(b))
    ELSE NewTree

\* pairs as (gc_i, gc_j); the meeting info of a pair is not used by the solver
AreaOptPairs == {<<>>, <<(<<0, 3>>)>>, <<(<<0, 3>>), (<<4, 7>>)>>}

AreaOptMethods == {"SLSQP", "L-BFGS-B"}

AreaOptBounds == <<MinDt, DtStep * MaxDt>>

InitAreaOpt ==
    /\ config = DefaultConfig
    /\ pipeline = Idle /\ finder = Idle
    /\ TreeIs(NewTree)
    /\ op = [name |-> "init"]
    /\ ev = NewEvaluator
    /\ matcher = Idle /\ pairopt = Idle
    /\ \E pairs \in AreaOptPairs : \E optimization_method \in AreaOptMethods :
          areaopt = [state |-> "new", pairs |-> pairs,
                     optimization_method |-> optimization_method,
                     dt_bounds |-> AreaOptBounds]

\* the caller prepares the tree it passes to optimize_tree_area
PrepareTree ==
    /\ areaopt.state = "new"
    /\ \E b \in DtBases : \E kind \in AreaOptTreeKinds : SetTree(AreaOptTree(b, kind))
    /\ areaopt' = [areaopt EXCEPT !.state = "called"]
    /\ op' = [name |-> "prepare"]
    /\ UNCHANGED <<ev, matcher, pairopt, config, pipeline, finder>>

\* the call up to the solver
StartAreaOpt ==
    /\ areaopt.state = "called"
    /\ LET r == start_area_optimization(Tree, areaopt.pairs, areaopt.optimization_method,
                                        areaopt.dt_bounds)
       IN  /\ SetTree(r.tree)
           /\ areaopt' = r.ao
    /\ op' = [name |-> "optimize_tree_area"]
    /\ UNCHANGED <<ev, matcher, pairopt, config, pipeline, finder>>

\* scipy.optimize.minimize
Minimize ==
    /\ areaopt.state = "minimize"
    /\ \E optimization_result \in MinimizeResults(Tree, areaopt) :
          areaopt' = minimize_returned(areaopt, optimization_result)
    /\ op' = [name |-> "minimize"]
    /\ UNCHANGED <<treeVars, err, ev, matcher, pairopt, config, pipeline, finder>>

\* the analysis of the result and the return
ReturnAreaResult ==
    /\ areaopt.state = "solved"
    /\ areaopt' = finish_area_optimization(Tree, areaopt)
    /\ op' = [name |-> "return"]
    /\ UNCHANGED <<treeVars, err, ev, matcher, pairopt, config, pipeline, finder>>

NextAreaOpt == PrepareTree \/ StartAreaOpt \/ Minimize \/ ReturnAreaResult

SpecAreaOpt == InitAreaOpt /\ [][NextAreaOpt]_vars

----------------------------------------------------------------------------
(* find_optimal_pairs (pairs/find_optimal_pairs_old.py): convergence       *)
(* tables, converging pairs, one optimisation per converging pair, tables  *)
(* of the successful optimisations, chronology, extraction of the pairs.   *)
(* The derivative of a distance is kept as 2 * (r_diff . v_diff), which    *)
(* has the sign of d/dt |r_i - r_j|; the velocity of a spore is            *)
(* (theta_dot, theta_ddot) = (w, u).                                       *)

GcOf(t, k) == t.gcObj[t.grandchildren[k]]

\* compute_distance_derivative_table, entry (i, j)
distance_derivative(t, i, j) ==
    LET gc_i == GcOf(t, i)
        gc_j == GcOf(t, j)
        dx == gc_i.position[1] - gc_j.position[1]
        dw == gc_i.position[2] - gc_j.position[2]
        sign1 == np_sign(gc_i.dt)
        sign2 == np_sign(gc_j.dt)
    IN  IF dx = 0 /\ dw = 0 THEN 0
        ELSE dx * (sign1 * gc_i.position[2] - sign2 * gc_j.position[2])
             + 2 * dw * (sign1 * gc_i.control - sign2 * gc_j.control)

\* compute_grandchild_parent_convergence_table, entry (gc_idx, parent_idx)
\* of a parent that is not the grandchild's own
parent_distance_derivative(t, gc_idx, parent_idx) ==
    LET gc == GcOf(t, gc_idx)
        dx == gc.position[1] - t.children[parent_idx].position[1]
        dw == gc.position[2] - t.children[parent_idx].position[2]
        gc_time_sign == np_sign(gc.dt)
    IN  IF dx = 0 /\ dw = 0 THEN 0
        ELSE dx * (gc_time_sign * gc.position[2]) + 2 * dw * (gc_time_sign * gc.control)

\* the elements of a set of index pairs as a list, in the order of the indices
PairList(S) ==
    LET key(p) == p[1] * (NumGC + NumChildren) + p[2]
    IN  [k \in 1..Cardinality(S) |->
            CHOOSE p \in S : Cardinality({q \in S : key(q) < key(p)}) = k - 1]

\* find_converging_grandchild_pairs: the pairs i < j that approach each other
find_converging_grandchild_pairs(t) ==
    PairList({<<i, j>> \in (DOMAIN t.grandchildren) \X (DOMAIN t.grandchildren) :
                 i < j /\ distance_derivative(t, i, j) < 0})

\* find_converging_grandchild_parent_pairs
find_converging_grandchild_parent_pairs(t) ==
    PairList({<<g, p>> \in (DOMAIN t.grandchildren) \X (DOMAIN t.children) :
                 /\ p # GcOf(t, g).parent_idx
                 /\ parent_distance_derivative(t, g, p) < 0})

\* what optimize_grandchild_pair_distance can return to find_optimal_pairs,
\* which calls it with dt_bounds=None and the root position: the failure
\* without a kept point, or the result for a kept point, which is any point
\* of the time grid that the acceptance test lets through (the method that
\* found the point is not read by find_optimal_pairs)
PairOutcomes(t, gc_i_idx, gc_j_idx) ==
    LET po == start_pair_optimization(t, gc_i_idx, gc_j_idx, NoBounds, RootPosition)
        points == {<<a, b>> : a \in po.dt_i_bounds[1]..po.dt_i_bounds[2],
                              b \in po.dt_j_bounds[1]..po.dt_j_bounds[2]}
        returned(x) == [raised |-> FALSE, success |-> TRUE, x |-> x, fun |-> 0]
    IN  {pair_optimization_result(po)}
        \cup {pair_optimization_result(try_method(t, po, returned(x))) :
                x \in {y \in points : accepts(t, po, returned(y))}}

\* optimize_grandchild_parent_distance: minimize_scalar over the signed
\* adaptive bounds; a failure (solver without success, point out of bounds,
\* exception) or the distance to the target parent at a point of the bounds
ParentOutcomes(t, gc_idx, parent_idx) ==
    LET gc == GcOf(t, gc_idx)
        gc_parent_pos == t.children[gc.parent_idx].position
        target_parent_pos == t.children[parent_idx].position
        dt_bounds_signed == branch_bounds(gc.dt, effective_dt_bounds(t, NoBounds))
    IN  {[success |-> FALSE, min_distance |-> Inf, error |-> "optimization_failed"]}
        \cup {[success |-> TRUE,
               min_distance |-> Quad(Step(gc_parent_pos, gc.control, dt), target_parent_pos),
               optimal_dt |-> dt,
               method_used |-> "minimize_scalar_bounded"] :
                dt \in dt_bounds_signed[1]..dt_bounds_signed[2]}

\* the value find_optimal_pairs returns when it gives up at a stage
gave_up(stage) == [state |-> "done", stage |-> stage, result |-> NoneResult]

\* lines 37-121: input checks, convergence tables, converging pairs
start_find_optimal_pairs(t) ==
    IF ~t.children_created \/ ~t.grandchildren_created \/ Len0(t.grandchildren) = 0
    THEN gave_up(0)
    ELSE
      LET converging_gc_pairs == find_converging_grandchild_pairs(t)
          converging_gc_parent_pairs == find_converging_grandchild_parent_pairs(t)
      IN  IF Len(converging_gc_pairs) = 0 /\ Len(converging_gc_parent_pairs) = 0
          THEN gave_up(2)
          ELSE [state |-> "optimize",
                converging_gc_pairs |-> converging_gc_pairs,
                converging_gc_parent_pairs |-> converging_gc_parent_pairs,
                pos |-> 1,
                optimized |-> <<>>,
                gc_gc_optimization_results |-> <<>>,
                gc_parent_optimization_results |-> <<>>]

\* variant of the loop body that tries a pair again when its optimisation
\* failed
retry_failed_pair(f, result) ==
    [f EXCEPT !.optimized = Append(@, f.converging_gc_pairs[f.pos]),
              !.gc_gc_optimization_results =
                    (f.converging_gc_pairs[f.pos] :> result) @@ @,
              !.pos = IF result.success THEN @ + 1 ELSE @]

\* lines 147-163: one iteration of the loop over the converging pairs; the
\* result is stored under the name of the pair, whatever it is
store_pair_result(f, result) ==
    [f EXCEPT !.optimized = Append(@, f.converging_gc_pairs[f.pos]),
              !.gc_gc_optimization_results =
                    (f.converging_gc_pairs[f.pos] :> result) @@ @,
              !.pos = @ + 1]

\* lines 167-182: one iteration of the loop over the grandchild-parent pairs
store_parent_result(f, result) ==
    [f EXCEPT !.gc_parent_optimization_results =
                    (f.converging_gc_parent_pairs[f.pos - Len(f.converging_gc_pairs)]
                        :> result) @@ @,
              !.pos = @ + 1]

\* lines 223-239: a pair enters the tables only when its optimisation
\* succeeded and passed the distance constraint
fills_table(f, pair) ==
    /\ pair \in DOMAIN f.gc_gc_optimization_results
    /\ f.gc_gc_optimization_results[pair].success
    /\ f.gc_gc_optimization_results[pair].passes_constraint

\* lines 243-252
fills_parent_table(f, pair) ==
    /\ pair \in DOMAIN f.gc_parent_optimization_results
    /\ f.gc_parent_optimization_results[pair].success

\* variant that fills the mirrored entries without swapping the two times
gc_gc_tables_unswapped(f, gc_idx, other_gc_idx) ==
    IF fills_table(f, <<gc_idx, other_gc_idx>>)
    THEN LET result == f.gc_gc_optimization_results[<<gc_idx, other_gc_idx>>]
         IN  [distance |-> result.min_distance,
              time_i |-> result.optimal_dt_i, time_j |-> result.optimal_dt_j]
    ELSE IF fills_table(f, <<other_gc_idx, gc_idx>>)
    THEN LET result == f.gc_gc_optimization_results[<<other_gc_idx, gc_idx>>]
         IN  [distance |-> result.min_distance,
              time_i |-> result.optimal_dt_i, time_j |-> result.optimal_dt_j]
    ELSE [distance |-> NaN]

\* the entries (gc_idx, other_gc_idx) of the three grandchild tables
gc_gc_tables(f, gc_idx, other_gc_idx) ==
    IF fills_table(f, <<gc_idx, other_gc_idx>>)
    THEN LET result == f.gc_gc_optimization_results[<<gc_idx, other_gc_idx>>]
         IN  [distance |-> result.min_distance,
              time_i |-> result.optimal_dt_i, time_j |-> result.optimal_dt_j]
    ELSE IF fills_table(f, <<other_gc_idx, gc_idx>>)
    THEN LET result == f.gc_gc_optimization_results[<<other_gc_idx, gc_idx>>]
         IN  [distance |-> result.min_distance,
              time_i |-> result.optimal_dt_j, time_j |-> result.optimal_dt_i]
    ELSE [distance |-> NaN]

\* meetings.sort(key=meeting_time): ascending and stable
sort_by_meeting_time(meetings) ==
    LET n == Len(meetings)
        rank(i) == Cardinality({j \in 1..n :
                      \/ meetings[j].meeting_time < meetings[i].meeting_time
                      \/ /\ meetings[j].meeting_time = meetings[i].meeting_time
                         /\ j < i})
    IN  [k \in 1..n |-> meetings[CHOOSE i \in 1..n : rank(i) = k - 1]]

\* lines 289-340: the chronology of one grandchild
meetings_of(t, f, gc_idx) ==
    LET others == SortedList({o \in DOMAIN t.grandchildren :
                      o # gc_idx /\ gc_gc_tables(f, gc_idx, o).distance # NaN})
        parents == SortedList({q \in DOMAIN t.children :
                      /\ q # GcOf(t, gc_idx).parent_idx
                      /\ fills_parent_table(f, <<gc_idx, q>>)})
        grandchild_meeting(o) ==
            LET e == gc_gc_tables(f, gc_idx, o)
            IN  [type |-> "grandchild", partner_idx |-> o, distance |-> e.distance,
                 time_gc |-> e.time_i, time_partner |-> e.time_j,
                 meeting_time |-> Max({Abs(e.time_i), Abs(e.time_j)})]
        parent_meeting(q) ==
            LET result == f.gc_parent_optimization_results[<<gc_idx, q>>]
            IN  [type |-> "parent", partner_idx |-> q, distance |-> result.min_distance,
                 time_gc |-> result.optimal_dt, time_partner |-> None,
                 meeting_time |-> Abs(result.optimal_dt)]
    IN  sort_by_meeting_time(
            [k \in 1..Len0(others) |-> grandchild_meeting(others[k - 1])]
            \o [k \in 1..Len0(parents) |-> parent_meeting(parents[k - 1])])

create_chronology(t, f) == [gc_idx \in DOMAIN t.grandchildren |-> meetings_of(t, f, gc_idx)]

\* pairs/extract_pairs_from_chronology.py: the loop over the sorted keys
RECURSIVE extract_pairs_loop(_, _)
extract_pairs_loop(mt, chronology) ==
    IF mt.pos \notin DOMAIN chronology THEN mt
    ELSE extract_pairs_loop(process_grandchild(mt, chronology[mt.pos]), chronology)

extract_pairs_from_chronology(chronology) ==
    extract_pairs_loop(NewMatcher("pairs"), chronology).pairs

\* lines 185-438: the test after the loops, the tables, the chronology, the
\* extraction; every stage gives up with None when it has nothing to pass on
finish_find_optimal_pairs(t, f) ==
    LET filled_gc_gc == {pair \in DOMAIN f.gc_gc_optimization_results : fills_table(f, pair)}
        filled_gc_parent == {pair \in DOMAIN f.gc_parent_optimization_results :
                                fills_parent_table(f, pair)}
        chronology == create_chronology(t, f)
        final_pairs == extract_pairs_from_chronology(chronology)
        done == [f EXCEPT !.state = "done"]
    IN  IF filled_gc_gc = {} /\ filled_gc_parent = {}
        THEN done @@ gave_up(3)
        ELSE IF \A gc_idx \in DOMAIN chronology : Len(chronology[gc_idx]) = 0
        THEN done @@ gave_up(5)
        ELSE IF Len(final_pairs) = 0
        THEN done @@ [chronology |-> chronology] @@ gave_up(6)
        ELSE done @@ [chronology |-> chronology, stage |-> 6,
                      result |-> [kind |-> "pairs", final_pairs |-> final_pairs]]

----------------------------------------------------------------------------
(* create_tree_from_pairs and find_optimal_dt_vector *)

\* variant without the test for an empty list of pairs
extract_times_unchecked(pairs, t) ==
    [kind |-> "dict",
     dt_children |-> [i \in DOMAIN t.children |-> t.children[i].dt],
     dt_grandchildren |-> [g \in DOMAIN t.grandchildren |-> GcOf(t, g).dt],
     paired_grandchildren |-> {}]

\* extract_optimal_times_from_pairs: the signed times of the tree, with the
\* times of the paired grandchildren replaced by those of their meetings
extract_optimal_times_from_pairs(pairs, t) ==
    IF Len(pairs) = 0 THEN NoneResult
    ELSE IF \E k \in 1..Len(pairs) :
                {pairs[k].gc_idx, pairs[k].partner_idx} \ (DOMAIN t.grandchildren) # {}
    THEN NoneResult   \* IndexError, caught in lines 206-209
    ELSE
      LET writes(g) == {k \in 1..Len(pairs) : g \in {pairs[k].gc_idx, pairs[k].partner_idx}}
          last_write(g) == pairs[Max(writes(g))]
          optimal_dt(g) ==
              LET w == last_write(g)
              IN  IF w.partner_idx = g THEN w.meeting.time_partner ELSE w.meeting.time_gc
      IN  [kind |-> "dict",
           dt_children |-> [i \in DOMAIN t.children |-> t.children[i].dt],
           dt_grandchildren |-> [g \in DOMAIN t.grandchildren |->
                IF writes(g) = {} THEN GcOf(t, g).dt ELSE optimal_dt(g)],
           paired_grandchildren |-> {g \in DOMAIN t.grandchildren : writes(g) # {}}]

\* a bare None in the place of the failure dict
pairs_not_found_as_none == NoneResult

\* lines 46-60: the dict returned when find_optimal_pairs returned None
pairs_not_found == [kind |-> "dict", success |-> FALSE, error |-> "pairs_not_found"]

\* create_tree_from_pairs, given what its call of find_optimal_pairs returned
create_tree_from_pairs(t, found) ==
    IF found = NoneResult
    THEN pairs_not_found
    ELSE
      LET pairs == found.final_pairs
          optimization_results == extract_optimal_times_from_pairs(pairs, t)
      IN  IF optimization_results = NoneResult
          THEN [kind |-> "dict", success |-> FALSE, error |-> "times_extraction_failed"]
          ELSE
            LET dt_children_abs == [i \in DOMAIN optimization_results.dt_children |->
                                        Abs(optimization_results.dt_children[i])]
                dt_grandchildren_abs ==
                    [g \in DOMAIN optimization_results.dt_grandchildren |->
                        Abs(optimization_results.dt_grandchildren[g])]
                optimized_tree == create_tree_from_dt_arrays(NewTree, dt_children_abs,
                                                             dt_grandchildren_abs)
            IN  IF optimized_tree.err # NoError
                THEN [kind |-> "dict", success |-> FALSE, error |-> "tree_creation_failed"]
                ELSE [kind |-> "dict", success |-> TRUE,
                      optimized_tree |-> optimized_tree,
                      pairs_found |-> Len(pairs),
                      paired_grandchildren |->
                          Cardinality(optimization_results.paired_grandchildren)]

\* find_optimal_dt_vector, stage 1: the four build calls; a call that raises
\* ends the chain
build_initial_tree ==
    LET t1 == create_children(NewTree, default_dt_children)
        t2 == IF t1.err # NoError THEN t1
              ELSE create_grandchildren(t1, default_dt_grandchildren(t1))
        t3 == IF t2.err # NoError THEN t2 ELSE sort_and_pair_grandchildren(t2)
    IN  IF t3.err # NoError THEN t3 ELSE calculate_mean_points(t3)

\* what the caller of a top-level function gets: a value or an exception
returns(p, stage, value) ==
    [state |-> "returned", entry |-> p.entry, stage |-> stage,
     value |-> value, raised |-> NoError, caught |-> NoError]

\* a handler that lets assertion errors through to the caller
reraise_assertions(p, stage, e) ==
    IF e.type = "AssertionError"
    THEN [state |-> "returned", entry |-> p.entry, stage |-> stage,
          value |-> NoneResult, raised |-> e, caught |-> NoError]
    ELSE [state |-> "returned", entry |-> p.entry, stage |-> stage,
          value |-> NoneResult, raised |-> NoError, caught |-> e]

\* lines 191-196: except Exception: the exception is printed when show is
\* set, and None is returned
catch_all(p, stage, e) ==
    [state |-> "returned", entry |-> p.entry, stage |-> stage,
     value |-> NoneResult, raised |-> NoError, caught |-> e]

\* the (gc_i, gc_j) of the pairs, as optimize_tree_area reads them
pair_indices(final_pairs) ==
    [k \in 1..Len(final_pairs) |-> <<final_pairs[k].gc_idx, final_pairs[k].partner_idx>>]

\* create_distance_constraints: one constraint function and one info entry
\* per pair; an empty list and an empty dict when there are no pairs or when
\* a pair names a grandchild the tree does not have (KeyError, caught)
NoConstraints == [kind |-> "constraints", constraints |-> <<>>, constraint_info |-> <<>>]

create_distance_constraints(pairs, t) ==
    LET known == {GcOf(t, k).global_idx : k \in DOMAIN t.grandchildren}
    IN  IF Len(pairs) = 0 THEN NoConstraints
        ELSE IF \E k \in 1..Len(pairs) :
                    {pairs[k].gc_idx, pairs[k].partner_idx} \ known # {}
        THEN NoConstraints
        ELSE [kind |-> "constraints",
              constraints |-> pair_indices(pairs),
              constraint_info |-> [k \in 1..Len(pairs) |->
                  [gc_i |-> pairs[k].gc_idx, gc_j |-> pairs[k].partner_idx,
                   gc_i_parent |-> grandchild_info(t, pairs[k].gc_idx).parent_idx,
                   gc_j_parent |-> grandchild_info(t, pairs[k].partner_idx).parent_idx,
                   target_distance |-> ConstraintDistance,
                   original_distance |-> pairs[k].meeting.distance,
                   meeting_time |-> pairs[k].meeting.meeting_time]]]

\* not result or not result['success'], negated
succeeded(result) == result # NoneResult /\ result.success

----------------------------------------------------------------------------
(* Specification SpecPipeline: a caller invokes one of the top-level        *)
(* functions, find_optimal_dt_vector on a config or create_tree_from_pairs *)
(* on a tree it prepared.  The configs are chosen for what their default   *)
(* tree does: on the first two grandchildren meet exactly, one pair at one *)
(* end of the tree and one at the other; on the third only grandchildren   *)
(* and foreign parents approach; on the fourth nothing approaches; on the  *)
(* last the angle order puts two siblings into one index pair.             *)

PipelineConfigs ==
    {[initial_position |-> <<0, 0>>, dt_base |-> 4, dt_grandchildren_factor |-> 3,
      optimization_method |-> "SLSQP"],
     [initial_position |-> <<0, 0>>, dt_base |-> 4, dt_grandchildren_factor |-> 3,
      optimization_method |-> "L-BFGS-B"],
     [initial_position |-> <<0, 1>>, dt_base |-> 1, dt_grandchildren_factor |-> 8,
      optimization_method |-> "SLSQP"],
     [initial_position |-> <<0, 0>>, dt_base |-> 1, dt_grandchildren_factor |-> 12,
      optimization_method |-> "SLSQP"],
     [initial_position |-> <<0, 3>>, dt_base |-> 1, dt_grandchildren_factor |-> 16,
      optimization_method |-> "SLSQP"]}

PipelineEntries ==
    {"find_optimal_dt_vector", "create_tree_from_pairs",
     "extract_optimal_times_from_pairs", "create_distance_constraints",
     "optimize_tree_area"}

\* the trees a caller passes to create_tree_from_pairs
PipelineTreeKinds == {"empty", "children", "created", "built"}

PipelineTree(kind) ==
    IF kind = "empty" THEN NewTree
    ELSE IF kind = "children" THEN create_children(NewTree, default_dt_children)
    ELSE IF kind = "created" THEN ensure_created(NewTree)
    ELSE [build_initial_tree EXCEPT !.err = NoError]

\* the lists of pairs a caller passes to a single stage: none, or the pair of
\* grandchildren 0 and 3 as find_optimal_pairs reports it
StagePairs ==
    {<<>>,
     <<[gc_idx |-> 0, partner_idx |-> 3,
        meeting |-> [type |-> "grandchild", partner_idx |-> 3, distance |-> 0,
                     time_gc |-> DtStep, time_partner |-> DtStep,
                     meeting_time |-> DtStep]]>>}

InitPipeline ==
    /\ config \in PipelineConfigs
    /\ pipeline \in {[state |-> "called", entry |-> e] : e \in PipelineEntries}
    /\ finder = Idle
    /\ TreeIs(NewTree)
    /\ op = [name |-> "init"]
    /\ ev = NewEvaluator
    /\ matcher = Idle /\ pairopt = Idle /\ areaopt = Idle

\* find_optimal_dt_vector, lines 102-123: the initial tree is built and
\* find_optimal_pairs is called on it
CreateInitialTree ==
    /\ pipeline.state = "called"
    /\ pipeline.entry = "find_optimal_dt_vector"
    /\ LET tree == build_initial_tree
       IN  /\ SetTree(tree)
           /\ IF tree.err # NoError
              THEN /\ pipeline' = catch_all(pipeline, 1, tree.err)
                   /\ finder' = finder
              ELSE /\ pipeline' = [pipeline EXCEPT !.state = "find_optimal_pairs"]
                   /\ finder' = [state |-> "called"]
    /\ op' = [name |-> "create_initial_tree"]
    /\ UNCHANGED <<ev, matcher, pairopt, areaopt, config>>

\* the caller of create_tree_from_pairs prepares a tree; the function starts
\* with its call of find_optimal_pairs
CallCreateTreeFromPairs ==
    /\ pipeline.state = "called"
    /\ pipeline.entry = "create_tree_from_pairs"
    /\ \E kind \in PipelineTreeKinds : SetTree(PipelineTree(kind))
    /\ pipeline' = [pipeline EXCEPT !.state = "find_optimal_pairs"]
    /\ finder' = [state |-> "called"]
    /\ op' = [name |-> "create_tree_from_pairs"]
    /\ UNCHANGED <<ev, matcher, pairopt, areaopt, config>>

\* find_optimal_pairs up to the loops of stage 3
StartFindOptimalPairs ==
    /\ finder.state = "called"
    /\ finder' = start_find_optimal_pairs(Tree)
    /\ op' = [name |-> "find_optimal_pairs"]
    /\ UNCHANGED <<treeVars, err, ev, matcher, pairopt, areaopt, config, pipeline>>

\* one call of optimize_grandchild_pair_distance in the first loop
OptimizePair ==
    /\ finder.state = "optimize"
    /\ finder.pos <= Len(finder.converging_gc_pairs)
    /\ LET pair == finder.converging_gc_pairs[finder.pos]
       IN  \E result \in PairOutcomes(Tree, pair[1], pair[2]) :
              finder' = store_pair_result(finder, result)
    /\ op' = [name |-> "optimize_grandchild_pair_distance"]
    /\ UNCHANGED <<treeVars, err, ev, matcher, pairopt, areaopt, config, pipeline>>

\* one call of optimize_grandchild_parent_distance in the second loop
OptimizeParentPair ==
    /\ finder.state = "optimize"
    /\ finder.pos > Len(finder.converging_gc_pairs)
    /\ finder.pos <= Len(finder.converging_gc_pairs) + Len(finder.converging_gc_parent_pairs)
    /\ LET pair == finder.converging_gc_parent_pairs[finder.pos - Len(finder.converging_gc_pairs)]
       IN  \E result \in ParentOutcomes(Tree, pair[1], pair[2]) :
              finder' = store_parent_result(finder, result)
    /\ op' = [name |-> "optimize_grandchild_parent_distance"]
    /\ UNCHANGED <<treeVars, err, ev, matcher, pairopt, areaopt, config, pipeline>>

\* the rest of find_optimal_pairs, after the loops
FinishFindOptimalPairs ==
    /\ finder.state = "optimize"
    /\ finder.pos > Len(finder.converging_gc_pairs) + Len(finder.converging_gc_parent_pairs)
    /\ finder' = finish_find_optimal_pairs(Tree, finder)
    /\ op' = [name |-> "extract_pairs_from_chronology"]
    /\ UNCHANGED <<treeVars, err, ev, matcher, pairopt, areaopt, config, pipeline>>

\* find_optimal_dt_vector, lines 118-144: the pairs are tested and
\* create_tree_from_pairs is called; its own call of find_optimal_pairs runs
\* on the same tree with the same solvers and returns the same pairs
CreatePairedTree ==
    /\ pipeline.state = "find_optimal_pairs"
    /\ pipeline.entry = "find_optimal_dt_vector"
    /\ finder.state = "done"
    /\ IF finder.result = NoneResult
       THEN /\ pipeline' = returns(pipeline, 2, NoneResult)
            /\ UNCHANGED <<treeVars, err>>
       ELSE LET result == create_tree_from_pairs(Tree, finder.result)
            IN  IF ~succeeded(result)
                THEN /\ pipeline' = returns(pipeline, 3, NoneResult) @@ [result |-> result]
                     /\ UNCHANGED <<treeVars, err>>
                ELSE /\ pipeline' = [pipeline EXCEPT !.state = "optimize_tree_area"]
                                    @@ [pairs |-> pair_indices(finder.result.final_pairs)]
                     /\ SetTree(result.optimized_tree)
    /\ op' = [name |-> "create_tree_from_pairs"]
    /\ UNCHANGED <<ev, matcher, pairopt, areaopt, config, finder>>

\* create_tree_from_pairs called by the caller itself: what it returns
ReturnFromCreateTree ==
    /\ pipeline.state = "find_optimal_pairs"
    /\ pipeline.entry = "create_tree_from_pairs"
    /\ finder.state = "done"
    /\ LET result == create_tree_from_pairs(Tree, finder.result)
       IN  /\ pipeline' = returns(pipeline, 3,
                  IF succeeded(result) THEN [result EXCEPT !.optimized_tree = "SporeTree"]
                  ELSE result)
           /\ IF succeeded(result) THEN SetTree(result.optimized_tree)
              ELSE UNCHANGED <<treeVars, err>>
    /\ op' = [name |-> "return"]
    /\ UNCHANGED <<ev, matcher, pairopt, areaopt, config, finder>>

\* extract_optimal_times_from_pairs called by the caller itself
ExtractOptimalTimes ==
    /\ pipeline.state = "called"
    /\ pipeline.entry = "extract_optimal_times_from_pairs"
    /\ \E kind \in PipelineTreeKinds, pairs \in StagePairs :
          /\ SetTree(PipelineTree(kind))
          /\ pipeline' = returns(pipeline, 0,
                             extract_optimal_times_from_pairs(pairs, PipelineTree(kind)))
                         @@ [pairs |-> pairs]
    /\ op' = [name |-> "extract_optimal_times_from_pairs"]
    /\ UNCHANGED <<ev, matcher, pairopt, areaopt, config, finder>>

\* create_distance_constraints called by the caller itself
CreateDistanceConstraints ==
    /\ pipeline.state = "called"
    /\ pipeline.entry = "create_distance_constraints"
    /\ \E kind \in PipelineTreeKinds, pairs \in StagePairs :
          /\ SetTree(PipelineTree(kind))
          /\ pipeline' = returns(pipeline, 0,
                             create_distance_constraints(pairs, PipelineTree(kind)))
                         @@ [pairs |-> pairs]
    /\ op' = [name |-> "create_distance_constraints"]
    /\ UNCHANGED <<ev, matcher, pairopt, areaopt, config, finder>>

\* the caller of optimize_tree_area prepares a tree and a list of pairs
CallOptimizeTreeArea ==
    /\ pipeline.state = "called"
    /\ pipeline.entry = "optimize_tree_area"
    /\ \E kind \in PipelineTreeKinds, pairs \in StagePairs :
          /\ SetTree(PipelineTree(kind))
          /\ pipeline' = [pipeline EXCEPT !.state = "optimize_tree_area"]
                         @@ [pairs |-> pair_indices(pairs)]
    /\ op' = [name |-> "call_optimize_tree_area"]
    /\ UNCHANGED <<ev, matcher, pairopt, areaopt, config, finder>>

\* what the caller of optimize_tree_area gets: find_optimal_dt_vector hands
\* on the optimized_dt_vector of a success and None otherwise
area_value(entry, result) ==
    IF entry = "find_optimal_dt_vector"
    THEN IF succeeded(result)
         THEN [kind |-> "array", optimized_dt_vector |-> result.optimized_dt_vector]
         ELSE NoneResult
    ELSE IF succeeded(result) THEN [result EXCEPT !.optimized_tree = "SporeTree"]
    ELSE result

\* find_optimal_dt_vector, lines 157-189: optimize_tree_area on the new tree
\* and the pairs; its optimized_dt_vector is returned when it succeeded
OptimizeTreeArea ==
    /\ pipeline.state = "optimize_tree_area"
    /\ LET started == start_area_optimization(Tree, pipeline.pairs,
                                              config.optimization_method, AreaOptBounds)
       IN  /\ SetTree(started.tree)
           /\ IF started.ao.state = "done"
              THEN /\ areaopt' = started.ao
                   /\ pipeline' = returns(pipeline, 4, NoneResult)
                                  @@ [pairs |-> pipeline.pairs]
              ELSE \E optimization_result \in MinimizeResults(started.tree, started.ao) :
                      LET solved == minimize_returned(started.ao, optimization_result)
                          finished == IF solved.state = "done" THEN solved
                                      ELSE finish_area_optimization(started.tree, solved)
                      IN  /\ areaopt' = [state |-> "done",
                                         optimization_result |-> optimization_result,
                                         result |->
                                 IF succeeded(finished.result)
                                 THEN [finished.result EXCEPT !.optimized_tree = "SporeTree"]
                                 ELSE finished.result]
                          /\ pipeline' = returns(pipeline, 4,
                                     area_value(pipeline.entry, finished.result))
                                 @@ [pairs |-> pipeline.pairs]
    /\ op' = [name |-> "optimize_tree_area"]
    /\ UNCHANGED <<ev, matcher, pairopt, config, finder>>

NextPipeline ==
    \/ CreateInitialTree
    \/ CallCreateTreeFromPairs
    \/ StartFindOptimalPairs
    \/ OptimizePair
    \/ OptimizeParentPair
    \/ FinishFindOptimalPairs
    \/ CreatePairedTree
    \/ ReturnFromCreateTree
    \/ ExtractOptimalTimes
    \/ CreateDistanceConstraints
    \/ CallOptimizeTreeArea
    \/ OptimizeTreeArea

SpecPipeline == InitPipeline /\ [][NextPipeline]_vars

----------------------------------------------------------------------------
(* Properties of the sort                                                  *)

\* both entries of index pair k exist in lst and have different parents
PairParentsDiffer(lst, k) ==
    /\ 2 * k + 1 < Len0(lst)
    /\ gcObj[lst[2 * k]].parent_idx # gcObj[lst[2 * k + 1]].parent_idx

\* the ordering the sort arrives at in the current state, before its asserts
SortCandidate == rotate_for_pairs(SortedByAngleDesc(grandchildren, gcObj), gcObj)

BadPairs == {k \in PairIdx : ~PairParentsDiffer(SortCandidate, k)}

(* C1: for every tree built from a valid dt-vector, a call of              *)
(* sort_and_pair_grandchildren returns (raises nothing) and leaves an      *)
(* ordering whose index pairs (0,1), (2,3), (4,5), (6,7) each hold two     *)
(* grandchildren of different parents.                                     *)
C1_SortPairsHaveDifferentParents ==
    op.name = "sort_and_pair_grandchildren" =>
        /\ err = NoError
        /\ grandchildren_sorted
        /\ \A k \in PairIdx : PairParentsDiffer(sorted_grandchildren, k)

(* C10: when the sorted and rotated list has an index pair with one parent *)
(* (or a missing entry), sort_and_pair_grandchildren raises an             *)
(* AssertionError that carries the pair's indices and, for a same-parent   *)
(* pair, the two names and parent ids; sorted_grandchildren and the sorted *)
(* flag stay as they were before the call.                                 *)
C10_SortAbortsOnBadPair ==
    [][(op'.name = "sort_and_pair_grandchildren" /\ grandchildren_created /\ BadPairs # {}) =>
          LET k == CHOOSE b \in BadPairs : \A j \in BadPairs : b <= j
              c == SortCandidate
          IN  /\ err'.type = "AssertionError"
              /\ err'.pair_idx = k /\ err'.idx1 = 2 * k /\ err'.idx2 = 2 * k + 1
              /\ (2 * k + 1 < Len0(c) =>
                    /\ err'.name1 = gcObj[c[2 * k]].name
                    /\ err'.name2 = gcObj[c[2 * k + 1]].name
                    /\ err'.parent1 = gcObj[c[2 * k]].parent_idx
                    /\ err'.parent2 = gcObj[c[2 * k + 1]].parent_idx)
              /\ sorted_grandchildren' = sorted_grandchildren
              /\ grandchildren_sorted' = grandchildren_sorted]_vars

\* a sort call has just aborted on a same-parent pair
C10_Witness ==
    /\ op.name = "sort_and_pair_grandchildren"
    /\ err.type = "AssertionError"
    /\ err.what = "same parent"
    /\ err.parent1 = err.parent2

----------------------------------------------------------------------------
(* Properties of the pair extraction                                       *)

PairMembers(pair) == {pair.gc_idx, pair.partner_idx}

----------------------------------------------------------------------------
(* Properties of the pair optimiser                                        *)

\* the interval in force for a branch, from the inputs of the call
BoundsInForce(original_dt) ==
    LET b == IF pairopt.dt_bounds = NoBounds
             THEN <<MinDt, 2 * Max({Abs(children[i].dt) : i \in ChildIdx})>>
             ELSE pairopt.dt_bounds
    IN  IF original_dt > 0 THEN b ELSE <<-b[2], -b[1]>>

SameSign(a, b) == (a > 0 /\ b > 0) \/ (a < 0 /\ b < 0)

(* C3: a result with success=True has both dt values inside the bounds in  *)
(* force for their branch and of the sign of the grandchild's original dt, *)
(* and, when a root position was given, min_distance is at most a tenth of *)
(* the smallest root-child distance.                                       *)
C3_SuccessIsFeasible ==
    (pairopt.state = "done" /\ pairopt.result.success) =>
        LET r == pairopt.result
            gi == gcObj[grandchildren[pairopt.gc_i_idx]]
            gj == gcObj[grandchildren[pairopt.gc_j_idx]]
        IN  /\ BoundsInForce(gi.dt)[1] <= r.optimal_dt_i
            /\ r.optimal_dt_i <= BoundsInForce(gi.dt)[2]
            /\ BoundsInForce(gj.dt)[1] <= r.optimal_dt_j
            /\ r.optimal_dt_j <= BoundsInForce(gj.dt)[2]
            /\ SameSign(r.optimal_dt_i, gi.dt)
            /\ SameSign(r.optimal_dt_j, gj.dt)
            /\ (pairopt.root_position # NoRoot =>
                   /\ r.min_distance >= 0
                   /\ 100 * r.min_distance
                        <= Min({Quad(children[i].position, RootPosition) : i \in ChildIdx}))

\* a call with a distance ceiling has returned success=True
C3_Witness ==
    /\ pairopt.state = "done"
    /\ pairopt.result.success
    /\ pairopt.root_position # NoRoot

----------------------------------------------------------------------------
(* Properties of the candidate map                                         *)

\* the grandchildren list as records
Grandchildren == [k \in DOMAIN grandchildren |-> gcObj[grandchildren[k]]]

\* list positions of the grandchildren that share g's parent (g included)
SharingParent(g) == {k \in DOMAIN Grandchildren : Grandchildren[k].parent_idx = g.parent_idx}

(* C4: after the grandchildren are created, the candidate list of every   *)
(* grandchild g holds no grandchild with g's parent_idx (neither g nor its *)
(* sibling) and its length is the number of grandchildren minus the number *)
(* of grandchildren that share g's parent.                                 *)
C4_CandidatesExcludeSameParent ==
    grandchildren_created =>
        \A k \in DOMAIN Grandchildren :
            LET g == Grandchildren[k]
                candidates == pairing_candidate_map[g.global_idx]
            IN  /\ \A c \in DOMAIN candidates : \A j \in SharingParent(g) :
                      candidates[c] # Grandchildren[j].global_idx
                /\ Len0(candidates) = Len0(Grandchildren) - Cardinality(SharingParent(g))

\* the evaluator has built the 4x2 tree and its map lists 6 candidates
C4_Witness ==
    /\ ev.initialised
    /\ grandchildren_created
    /\ Len0(Grandchildren) = NumGC
    /\ \A key \in GcIdx : Len0(pairing_candidate_map[key]) = NumGC - GcPerChild

----------------------------------------------------------------------------
(* Properties of update_positions                                          *)

\* time direction of a stored dt: 1 forward, -1 backward, 0 for dt = 0
Direction(dt) == IF dt > 0 THEN 1 ELSE IF dt < 0 THEN -1 ELSE 0

(* C5: through every sequence of update_positions calls with dt-vectors of *)
(* positive magnitudes, each child and each grandchild has the time        *)
(* direction it was created with: child i the direction dt_signs[i], a     *)
(* grandchild forward for local_idx 0 and backward for local_idx 1.        *)
C5_DirectionNeverFlips ==
    /\ children_created =>
          \A i \in DOMAIN children : Direction(children[i].dt) = dt_signs[i]
    /\ grandchildren_created =>
          \A k \in DOMAIN Grandchildren :
              Direction(Grandchildren[k].dt) =
                  (IF Grandchildren[k].local_idx = 0 THEN 1 ELSE -1)

\* update_positions has moved a backward grandchild to a magnitude that no
\* constructor call gives
C5_Witness ==
    /\ op.name = "update_positions"
    /\ err = NoError
    /\ \E k \in DOMAIN Grandchildren :
          /\ Grandchildren[k].local_idx = 1
          /\ Grandchildren[k].dt < 0
          /\ Grandchildren[k].dt_abs % DtStep # 0

----------------------------------------------------------------------------
(* Properties of the evaluator                                             *)

\* the fields that say which spore a dict is
Identity(spore) == <<spore.id, spore.parent_idx, spore.control>>

(* C6: once the evaluator has built its tree, no evaluation creates the    *)
(* children or grandchildren again or sorts them again: the grandchildren  *)
(* list and the sorted list hold the same dicts in the same order after    *)
(* every later call, every dict is the same spore, the flags stay set and  *)
(* the evaluator stays built.                                              *)
C6_BuiltTreeIsNeverRebuilt ==
    [][ev.initialised =>
          /\ ev'.initialised
          /\ grandchildren' = grandchildren
          /\ sorted_grandchildren' = sorted_grandchildren
          /\ DOMAIN children' = DOMAIN children
          /\ \A i \in DOMAIN children : Identity(children'[i]) = Identity(children[i])
          /\ \A k \in DOMAIN grandchildren :
                /\ Identity(gcObj'[grandchildren[k]]) = Identity(gcObj[grandchildren[k]])
                /\ gcObj'[grandchildren[k]].global_idx = gcObj[grandchildren[k]].global_idx
          /\ children_created' /\ grandchildren_created' /\ grandchildren_sorted'
          /\ err' = NoError]_vars

\* the built tree stands at a dt-vector for which a new sort would give
\* another order than the one fixed at the first build
C6_Witness ==
    /\ ev.initialised
    /\ err = NoError
    /\ grandchildren_sorted
    /\ SortCandidate # sorted_grandchildren

(* C7: update_positions changes positions, dt values and mean points and  *)
(* nothing else: the children, grandchildren and sorted_grandchildren      *)
(* lists hold the same spores in the same order, every spore keeps its     *)
(* parent_idx, local_idx, global_idx, control, id and name, and the        *)
(* candidate map and the flags are as before the call.                     *)
C7_UpdateChangesOnlyPositions ==
    [][op'.name = "update_positions" =>
          /\ grandchildren' = grandchildren
          /\ sorted_grandchildren' = sorted_grandchildren
          /\ DOMAIN children' = DOMAIN children
          /\ \A i \in DOMAIN children :
                [children'[i] EXCEPT !.position = children[i].position,
                                     !.dt = children[i].dt] = children[i]
          /\ \A o \in ObjIds :
                IF gcObj[o].alive
                THEN [gcObj'[o] EXCEPT !.position = gcObj[o].position,
                                       !.dt = gcObj[o].dt,
                                       !.dt_abs = gcObj[o].dt_abs] = gcObj[o]
                ELSE gcObj'[o] = gcObj[o]
          /\ pairing_candidate_map' = pairing_candidate_map
          /\ children_created' = children_created
          /\ grandchildren_created' = grandchildren_created
          /\ grandchildren_sorted' = grandchildren_sorted]_vars

\* an update has moved the grandchildren to positions that a sort would
\* put in another order than the stored one
C7_Witness ==
    /\ op.name = "update_positions"
    /\ err = NoError
    /\ SortCandidate # sorted_grandchildren

(* C8: an evaluation with the dt-vector the built tree stands at, or with  *)
(* the dt-vector of the evaluator's last call, changes nothing: every      *)
(* child, every grandchild and every mean point is after the call what it  *)
(* was before it, whether the call runs update_positions or skips it.      *)
C8_SameDtVectorIsNoOp ==
    [][(ev.initialised /\ (op'.dt = tree_dt(Tree) \/ op'.dt = ev.last_dt)) =>
          /\ children' = children
          /\ gcObj' = gcObj
          /\ mean_points' = mean_points
          /\ err' = NoError]_vars

\* update_positions has run with the dt-vector the tree already stood at
C8_Witness ==
    /\ op.name # "init"
    /\ op.same
    /\ op.branch = "update"
    /\ err = NoError

----------------------------------------------------------------------------
(* Properties of the area optimiser                                        *)

(* C9: a result of optimize_tree_area with success=True has every          *)
(* constrained pair within constraint_distance at the returned dt-vector.  *)
C9_SuccessSatisfiesConstraints ==
    (areaopt.state = "done" /\ areaopt.result.kind = "dict" /\ areaopt.result.success) =>
        \A i \in 1..Len(areaopt.pairs) :
            Quad(constrained_position(Tree, areaopt.pairs[i][1],
                                      areaopt.result.optimized_dt_vector),
                 constrained_position(Tree, areaopt.pairs[i][2],
                                      areaopt.result.optimized_dt_vector))
                <= ConstraintDistance

----------------------------------------------------------------------------
(* Specification SpecBuild: the build methods of one SporeTree called in   *)
(* any order by its user, each with or without its dt array.               *)

\* uniform child times, and grandchild times with the first entry moved
BuildChildDts == {[i \in ChildIdx |-> a] : a \in {DtStep, 2 * DtStep}}
BuildGrandchildDts == {[i \in GcIdx |-> IF i = 0 THEN v ELSE DtStep] : v \in {DtStep, 2 * DtStep}}
BuildDtVectors == {DtVector(b, 0, b) : b \in {DtStep, 2 * DtStep}}

InitBuild ==
    /\ config = DefaultConfig
    /\ pipeline = Idle /\ finder = Idle
    /\ TreeIs(NewTree)
    /\ op = [name |-> "init"]
    /\ ev = NewEvaluator
    /\ matcher = Idle /\ pairopt = Idle /\ areaopt = Idle

\* SporeTree.create_children, with a dt array or with None
CreateChildren ==
    /\ \E dt_children \in BuildChildDts \cup {default_dt_children} :
          SetTree(create_children(Tree, dt_children))
    /\ op' = [name |-> "create_children"]
    /\ UNCHANGED <<ev, matcher, pairopt, areaopt, config, pipeline, finder>>

\* SporeTree.create_grandchildren with a dt array
CreateGrandchildren ==
    /\ \E dt_grandchildren \in BuildGrandchildDts :
          SetTree(create_grandchildren(Tree, dt_grandchildren))
    /\ op' = [name |-> "create_grandchildren"]
    /\ UNCHANGED <<ev, matcher, pairopt, areaopt, config, pipeline, finder>>

\* SporeTree.create_grandchildren with None: the times are made from those
\* of the children, after the test for the children
CreateDefaultGrandchildren ==
    /\ SetTree(IF ~Tree.children_created
               THEN create_grandchildren(Tree, EmptyList)
               ELSE create_grandchildren(Tree, default_dt_grandchildren(Tree)))
    /\ op' = [name |-> "create_grandchildren"]
    /\ UNCHANGED <<ev, matcher, pairopt, areaopt, config, pipeline, finder>>

\* SporeTree.reset
Reset ==
    /\ SetTree(reset(Tree))
    /\ op' = [name |-> "reset"]
    /\ UNCHANGED <<ev, matcher, pairopt, areaopt, config, pipeline, finder>>

\* SporeTree.reset_for_optimization
ResetForOptimization ==
    /\ SetTree(reset_for_optimization(Tree))
    /\ op' = [name |-> "reset_for_optimization"]
    /\ UNCHANGED <<ev, matcher, pairopt, areaopt, config, pipeline, finder>>

\* SporeTree.update_positions with a dt vector of the optimiser
UpdateBuiltPositions ==
    \E dt_all \in BuildDtVectors :
        /\ SetTree(update_positions(Tree, dt_children_of(dt_all), dt_grandchildren_of(dt_all)))
        /\ op' = [name |-> "update_positions"]
        /\ UNCHANGED <<ev, matcher, pairopt, areaopt, config, pipeline, finder>>

NextBuild ==
    \/ CreateChildren
    \/ CreateGrandchildren
    \/ CreateDefaultGrandchildren
    \/ Reset
    \/ ResetForOptimization
    \/ SortAndPairGrandchildren
    \/ CalculateMeanPoints
    \/ UpdateBuiltPositions

SpecBuild == InitBuild /\ [][NextBuild]_vars

----------------------------------------------------------------------------
(* Properties of the top-level functions                                   *)

\* find_optimal_dt_vector is over, and its call of
\* sort_and_pair_grandchildren found two siblings in one index pair
SortFailedInPipeline ==
    /\ pipeline.state = "returned"
    /\ pipeline.entry = "find_optimal_dt_vector"
    /\ err.type = "AssertionError"
    /\ err.where = "sort_and_pair_grandchildren"
    /\ err.what = "same parent"

NoPairsFound == finder # Idle /\ finder.state = "done" /\ finder.result = NoneResult

\* the solver of optimize_tree_area has returned a result without success
NotConverged ==
    /\ areaopt # Idle
    /\ areaopt.state = "done"
    /\ "optimization_result" \in DOMAIN areaopt
    /\ ~areaopt.optimization_result.raised
    /\ ~areaopt.optimization_result.success

\* a dict with success=False and a message
FailureObject(value) ==
    /\ value.kind = "dict"
    /\ ~value.success
    /\ "error" \in DOMAIN value

\* C12 as stated: when no pairs were found or the solver did not converge,
\* find_optimal_dt_vector, create_tree_from_pairs and optimize_tree_area
\* each return an object with success=False and a message.
C12_FailuresAreStructured ==
    /\ pipeline.state = "returned" /\ (NoPairsFound \/ NotConverged)
            => pipeline.raised = NoError /\ FailureObject(pipeline.value)
    /\ NotConverged =>
            FailureObject(areaopt.result)
            /\ areaopt.result.error = areaopt.optimization_result.message

\* C12: when no pairs were found or the solver did not converge, none of
\* the three functions raises; create_tree_from_pairs returns a dict with
\* success=False and the error 'pairs_not_found', optimize_tree_area returns
\* a dict with success=False and the solver's message, and
\* find_optimal_dt_vector returns None.
C12_FailuresAreReturned ==
    /\ pipeline.state = "returned" /\ (NoPairsFound \/ NotConverged)
            => /\ pipeline.raised = NoError
               /\ pipeline.caught = NoError
               /\ CASE pipeline.entry = "create_tree_from_pairs" ->
                          FailureObject(pipeline.value)
                          /\ pipeline.value.error = "pairs_not_found"
                    [] pipeline.entry = "optimize_tree_area" ->
                          FailureObject(pipeline.value)
                          /\ pipeline.value.error = areaopt.optimization_result.message
                    [] OTHER -> pipeline.value = NoneResult
    /\ NotConverged =>
            FailureObject(areaopt.result)
            /\ areaopt.result.error = areaopt.optimization_result.message

\* find_optimal_dt_vector has returned after the solver of the area did not
\* converge
C12_Witness ==
    /\ pipeline.state = "returned"
    /\ pipeline.entry = "find_optimal_dt_vector"
    /\ NotConverged
    /\ areaopt.result.error = "not converged"
    /\ pipeline.value = NoneResult

\* find_optimal_pairs has returned to its caller, which has not gone on yet
FinderReturned ==
    finder # Idle /\ finder.state = "done" /\ pipeline.state = "find_optimal_pairs"

ZeroGrandchildren == Len0(Tree.grandchildren) = 0

NoApproachingPair ==
    /\ Tree.children_created /\ Tree.grandchildren_created /\ ~ZeroGrandchildren
    /\ Len(find_converging_grandchild_pairs(Tree)) = 0
    /\ Len(find_converging_grandchild_parent_pairs(Tree)) = 0

NoOptimizedPair ==
    /\ "gc_gc_optimization_results" \in DOMAIN finder
    /\ \A pair \in DOMAIN finder.gc_gc_optimization_results :
            ~finder.gc_gc_optimization_results[pair].success
    /\ \A pair \in DOMAIN finder.gc_parent_optimization_results :
            ~finder.gc_parent_optimization_results[pair].success

NoPairExtracted ==
    /\ "chronology" \in DOMAIN finder
    /\ \A gc_idx \in DOMAIN finder.chronology :
            \A k \in 1..Len(finder.chronology[gc_idx]) :
                finder.chronology[gc_idx][k].type # "grandchild"

StageReturned(entry) == pipeline.state = "returned" /\ pipeline.entry = entry

\* C13: on an empty or degenerate input no stage raises: find_optimal_pairs
\* returns None when the tree has no grandchildren, when no pair approaches,
\* when no pair was optimised successfully and when the chronology holds no
\* meeting of two grandchildren; extract_optimal_times_from_pairs returns
\* None, create_distance_constraints an empty list and an empty dict, and
\* optimize_tree_area None, when the list of pairs is empty or the tree has
\* no grandchildren.
C13_DegenerateInputsShortCircuit ==
    /\ pipeline.state = "returned" => pipeline.raised = NoError
    /\ FinderReturned /\ (ZeroGrandchildren \/ NoApproachingPair
                             \/ NoOptimizedPair \/ NoPairExtracted)
            => finder.result = NoneResult
    /\ StageReturned("extract_optimal_times_from_pairs")
         /\ (Len(pipeline.pairs) = 0 \/ ZeroGrandchildren)
            => pipeline.value = NoneResult
    /\ StageReturned("create_distance_constraints")
         /\ (Len(pipeline.pairs) = 0 \/ ZeroGrandchildren)
            => /\ pipeline.value.constraints = <<>>
               /\ pipeline.value.constraint_info = <<>>
    /\ StageReturned("optimize_tree_area")
         /\ (Len(pipeline.pairs) = 0 \/ ZeroGrandchildren)
            => pipeline.value = NoneResult

\* extract_optimal_times_from_pairs was called with an empty list of pairs
\* on a tree that has its eight grandchildren
C13_Witness ==
    /\ StageReturned("extract_optimal_times_from_pairs")
    /\ Len(pipeline.pairs) = 0
    /\ Len0(Tree.grandchildren) = 8
    /\ pipeline.value = NoneResult

\* the pairs whose optimisation returned success=False
FailedPairs ==
    {pair \in DOMAIN finder.gc_gc_optimization_results :
        ~finder.gc_gc_optimization_results[pair].success}

FailedParentPairs ==
    {pair \in DOMAIN finder.gc_parent_optimization_results :
        ~finder.gc_parent_optimization_results[pair].success}

\* gc_idx meets the grandchild partner_idx in the chronology of gc_idx
InChronology(gc_idx, type, partner_idx) ==
    \E k \in 1..Len(finder.chronology[gc_idx]) :
        /\ finder.chronology[gc_idx][k].type = type
        /\ finder.chronology[gc_idx][k].partner_idx = partner_idx

InFinalPairs(i, j) ==
    /\ finder.result # NoneResult
    /\ \E k \in 1..Len(finder.result.final_pairs) :
          {finder.result.final_pairs[k].gc_idx,
           finder.result.final_pairs[k].partner_idx} = {i, j}

RangeOf(list) == {list[k] : k \in 1..Len(list)}

\* C14: a pair whose optimisation returned success=False is in no chronology
\* and not among the final pairs; every converging pair has been optimised
\* when find_optimal_pairs is past its loops, whatever failed before it, the
\* successful ones are in the chronology, and no pair is optimised twice.
C14_FailedPairsAreLeftOut ==
    finder # Idle /\ "optimized" \in DOMAIN finder =>
        /\ \A k1, k2 \in 1..Len(finder.optimized) :
                k1 # k2 => finder.optimized[k1] # finder.optimized[k2]
        /\ finder.state = "done" =>
              /\ finder.optimized = finder.converging_gc_pairs
              /\ DOMAIN finder.gc_parent_optimization_results
                    = RangeOf(finder.converging_gc_parent_pairs)
              /\ \A pair \in FailedPairs : ~InFinalPairs(pair[1], pair[2])
              /\ "chronology" \in DOMAIN finder =>
                    /\ \A pair \in FailedPairs :
                          /\ ~InChronology(pair[1], "grandchild", pair[2])
                          /\ ~InChronology(pair[2], "grandchild", pair[1])
                    /\ \A pair \in FailedParentPairs :
                          ~InChronology(pair[1], "parent", pair[2])
                    /\ \A pair \in RangeOf(finder.converging_gc_pairs) \ FailedPairs :
                          finder.gc_gc_optimization_results[pair].passes_constraint
                              => InChronology(pair[1], "grandchild", pair[2])

\* find_optimal_pairs has returned pairs although the optimisation of the
\* first converging pair had failed; a later pair is in the chronology
C14_Witness ==
    /\ finder # Idle /\ finder.state = "done" /\ finder.result # NoneResult
    /\ finder.converging_gc_pairs[1] \in FailedPairs
    /\ \E k \in 2..Len(finder.converging_gc_pairs) :
          LET pair == finder.converging_gc_pairs[k]
          IN  InChronology(pair[1], "grandchild", pair[2]) /\ InFinalPairs(pair[1], pair[2])

\* the smallest distance among the points that passed the two checks;
\* a distance that is not a number is smaller than nothing
SmallestPassed ==
    LET numbers == {q \in pairopt.passed : q # NaN}
    IN  IF numbers = {} THEN Inf ELSE Min(numbers)

\* the method just tried returned a point that failed a check
LastPointFailedCheck ==
    /\ op.name = "minimize" /\ ~op.raised
    /\ ~(op.bounds_ok /\ op.distance_ok)

\* the method just tried is the one whose point is kept
LastPointKept == op.name = "minimize" /\ pairopt.best.method = op.method

\* C15: the point kept for a pair is the one of smallest distance among the
\* returned points that passed the bounds check and the ceiling check,
\* whether or not its solver reported success; a point that failed a check
\* is not kept, whatever its solver reported; when no point passed, the
\* result is success=False.
C15_BestPassingPointIsKept ==
    pairopt # Idle =>
        /\ pairopt.best.distance = SmallestPassed
        /\ LastPointFailedCheck => ~LastPointKept
        /\ pairopt.state = "done" /\ pairopt.passed = {} => ~pairopt.result.success

\* the third method returned a point without success that passed the checks
\* and was closer than the point kept from a solver that had succeeded: it
\* is the point of the successful result
C15_Witness ==
    /\ pairopt # Idle /\ pairopt.state = "done"
    /\ pairopt.result.success
    /\ Cardinality(pairopt.passed) = 2
    /\ pairopt.result.min_distance = SmallestPassed
    /\ op.name = "optimize_grandchild_pair_distance"
    /\ pairopt.best.method = "Powell"

\* a solver reported success for a point outside the bounds
C15_WitnessRejected ==
    /\ LastPointFailedCheck /\ op.success /\ ~op.bounds_ok
    /\ pairopt.best = NoBest

\* a solver reported no success for a point that passed the checks
C15_WitnessKept ==
    /\ LastPointKept /\ ~op.raised /\ ~op.success

\* the time dt of a branch lies outside its bounds or has not the sign of
\* the branch
Invalid(original_dt, bounds, dt) ==
    \/ ~in_bounds(bounds, dt)
    \/ original_dt > 0 /\ dt <= 0
    \/ original_dt < 0 /\ dt >= 0

InvalidPoint(x) ==
    \/ Invalid(pairopt.original_dt_i, pairopt.dt_i_bounds, x[1])
    \/ Invalid(pairopt.original_dt_j, pairopt.dt_j_bounds, x[2])

ErrorTags ==
    {"dt_i violation", "dt_j violation", "time direction violation i",
     "time direction violation j", "no_valid_solution"}

\* C16: a returned point with a time outside its bounds is not kept; when
\* the point kept has a time outside its bounds or of the wrong sign, the
\* result is success=False with an error tag, and so it is when no point
\* was kept; the times of a successful result are those of the point
\* kept, unchanged, and they are valid.
C16_InvalidTimesAreFailures ==
    pairopt # Idle =>
        /\ op.name = "minimize" /\ ~op.raised /\ ~op.bounds_ok => ~LastPointKept
        /\ pairopt.state = "done" =>
              /\ pairopt.best = NoBest \/ InvalidPoint(pairopt.best.x)
                    => /\ ~pairopt.result.success
                       /\ "error" \in DOMAIN pairopt.result
                       /\ pairopt.result.error \in ErrorTags
              /\ pairopt.result.success
                    => /\ pairopt.result.optimal_dt_i = pairopt.best.x[1]
                       /\ pairopt.result.optimal_dt_j = pairopt.best.x[2]
                       /\ ~InvalidPoint(pairopt.best.x)

\* the point kept has the time 0 for a forward grandchild, inside the
\* bounds given by the caller: the result is a time direction violation
C16_Witness ==
    /\ pairopt # Idle /\ pairopt.state = "done"
    /\ pairopt.best # NoBest
    /\ pairopt.original_dt_i > 0 /\ pairopt.best.x[1] = 0
    /\ ~pairopt.result.success
    /\ pairopt.result.error = "time direction violation i"

----------------------------------------------------------------------------
(* Properties of the build methods *)

\* create_grandchildren has just returned its list
GrandchildrenJustCreated == op.name = "create_grandchildren" /\ err = NoError

\* C18: after every create_grandchildren call that created grandchildren,
\* first or repeated, the keys of the candidate map are the global_idx of
\* the grandchildren of the list just created, and the entry of each is the
\* ascending list of the global_idx of those among them that have another
\* parent; nothing else is in the map.
C18_MapFollowsGrandchildren ==
    GrandchildrenJustCreated =>
        /\ DOMAIN pairing_candidate_map
              = {Grandchildren[k].global_idx : k \in DOMAIN Grandchildren}
        /\ \A k \in DOMAIN Grandchildren :
              LET g == Grandchildren[k]
                  candidates == pairing_candidate_map[g.global_idx]
              IN  /\ {candidates[c] : c \in DOMAIN candidates}
                        = {Grandchildren[j].global_idx :
                              j \in DOMAIN Grandchildren \ SharingParent(g)}
                  /\ \A c1, c2 \in DOMAIN candidates :
                        c1 < c2 => candidates[c1] < candidates[c2]

\* grandchildren were created again on a sorted tree: the sorted list still
\* holds the earlier grandchildren, the map is that of the new ones
C18_Witness ==
    /\ GrandchildrenJustCreated
    /\ grandchildren_sorted
    /\ sorted_grandchildren[0] \notin {grandchildren[k] : k \in DOMAIN grandchildren}
    /\ Len0(pairing_candidate_map) = NumGC
    /\ Len0(pairing_candidate_map[0]) = NumGC - GcPerChild

\* the children with control u and time direction d
ChildrenWith(u, d) ==
    {i \in DOMAIN children : children[i].control = u /\ Direction(children[i].dt) = d}

\* C19: whenever the tree has children, created or moved by
\* update_positions, there are four of them and each combination of a
\* control bound and a time direction is that of exactly one child.
C19_OneChildPerCombination ==
    Len0(children) # 0 =>
        /\ Len0(children) = NumChildren
        /\ \A u \in {get_control_bounds[1], get_control_bounds[2]} : \A d \in {1, -1} :
              Cardinality(ChildrenWith(u, d)) = 1

\* update_positions has moved the children to times other than those they
\* were created with
C19_Witness ==
    /\ op.name = "update_positions" /\ err = NoError
    /\ Len0(children) = NumChildren
    /\ children[0].dt = 2 * DtStep /\ children[1].dt = -2 * DtStep
    /\ Cardinality(ChildrenWith(get_control_bounds[1], -1)) = 1

Failed(type, where) == err.type = type /\ err.where = where

\* C20: create_grandchildren called on a tree whose children are not
\* created raises a RuntimeError, sort_and_pair_grandchildren called when
\* the grandchildren are not created raises a RuntimeError,
\* calculate_mean_points called when they are not sorted raises a
\* RuntimeError and update_positions called when they are not sorted raises
\* an AssertionError.
C20_StagesAreEnforced ==
    /\ op.name = "create_grandchildren" /\ ~children_created
            => Failed("RuntimeError", "create_grandchildren")
    /\ op.name = "sort_and_pair_grandchildren" /\ ~grandchildren_created
            => Failed("RuntimeError", "sort_and_pair_grandchildren")
    /\ op.name = "calculate_mean_points" /\ ~grandchildren_sorted
            => Failed("RuntimeError", "calculate_mean_points")
    /\ op.name = "update_positions" /\ ~grandchildren_sorted
            => Failed("AssertionError", "update_positions")

\* update_positions was called on a tree with children and grandchildren
\* that had not been sorted
C20_Witness ==
    /\ op.name = "update_positions"
    /\ children_created /\ grandchildren_created /\ ~grandchildren_sorted
    /\ Failed("AssertionError", "update_positions")

----------------------------------------------------------------------------
(* Properties of the optimisers and of the evaluators *)

\* what of a SporeTree belongs to the tree alone
OwnedByTree ==
    <<children, grandchildren, gcObj, children_created, grandchildren_created,
      grandchildren_sorted, pairing_candidate_map>>

\* C21: optimize_tree_area only reads the tree it is given: from its call
\* to its return the children, the grandchildren, the three flags and the
\* pairing candidate map of the tree are what they were.
C21_OptimizerOnlyReadsTree ==
    [][areaopt # Idle /\ areaopt.state \in {"called", "minimize", "solved"}
            => UNCHANGED OwnedByTree]_vars


\* variant that leaves out the edge from the last point back to the first
area_without_closing_edge(t) ==
    LET mp == t.mean_points
    IN  Abs((mp[1][1] * mp[0][2] + mp[2][1] * mp[1][2] + mp[3][1] * mp[2][2])
            - (mp[1][2] * mp[0][1] + mp[2][2] * mp[1][1] + mp[3][2] * mp[2][1]))

\* TreeEvaluator.area once the tree is built: the shoelace formula over the
\* mean points, np.roll(v, 1)[i] being v[i - 1]; twice the area, as
\* triangle_area is twice the area of a triangle
TreeEvaluator_area(t) ==
    LET mp == t.mean_points
        roll(i) == (i + NumPairs - 1) % NumPairs
        x_dot_rolled_y == mp[0][1] * mp[roll(0)][2] + mp[1][1] * mp[roll(1)][2]
                          + mp[2][1] * mp[roll(2)][2] + mp[3][1] * mp[roll(3)][2]
        y_dot_rolled_x == mp[0][2] * mp[roll(0)][1] + mp[1][2] * mp[roll(1)][1]
                          + mp[2][2] * mp[roll(2)][1] + mp[3][2] * mp[roll(3)][1]
    IN  Abs(x_dot_rolled_y - y_dot_rolled_x)

\* the tree a TreeEvaluator stands at after area(dt_all) on a new evaluator
evaluated_at(t, dt_all) == build_if_needed(t, NewEvaluator, dt_all).tree

\* the triangles root - parent child - grandchild of the spores of a tree, summed
RECURSIVE triangles_of(_, _)
triangles_of(t, k) ==
    IF k >= Len0(t.grandchildren) THEN 0
    ELSE LET gc == t.gcObj[t.grandchildren[k]]
         IN  triangle_area(RootPosition, t.children[gc.parent_idx].position, gc.position)
             + triangles_of(t, k + 1)

\* the solver has handed back a point that it reports as a success
SolverSucceeded ==
    /\ areaopt # Idle /\ areaopt.state = "solved"
    /\ areaopt.optimization_result.success

AreaOptSucceeded ==
    /\ areaopt # Idle /\ areaopt.state = "done"
    /\ succeeded(areaopt.result)

\* C22 as stated: the value optimize_tree_area maximises at the dt-vector
\* the solver returns is the shoelace area of the quadrilateral of the four
\* mean points, the value TreeEvaluator.area gives for that dt-vector.
C22_ObjectiveIsMeanPointArea ==
    SolverSucceeded =>
        LET r == areaopt.optimization_result
            te == evaluated_at(Tree, r.x)
        IN  te.err = NoError => -r.fun = TreeEvaluator_area(te)

\* C22 amended: the value optimize_tree_area maximises, returned as
\* optimized_area, is the sum of the areas of the eight triangles
\* root - parent child - grandchild of the tree at the returned dt-vector,
\* the spores of the returned optimized_tree.
C22_ObjectiveIsTriangleSum ==
    AreaOptSucceeded =>
        areaopt.result.optimized_area = triangles_of(areaopt.result.optimized_tree, 0)

\* a successful call whose triangle sum is not the mean-point area
C22_Witness ==
    /\ AreaOptSucceeded
    /\ areaopt.result.optimized_area > 0
    /\ LET te == evaluated_at(Tree, areaopt.result.optimized_dt_vector)
       IN  te.err = NoError /\ TreeEvaluator_area(te) # areaopt.result.optimized_area


----------------------------------------------------------------------------
(* Specification SpecShoelace: the area formula on its own.  A tree holds  *)
(* four mean points with coordinates in -1..MaxCoord; the pairs are        *)
(* relabelled cyclically and the area is computed.                         *)

MaxCoord == 2

Coords == (-1)..MaxCoord

InitShoelace ==
    /\ config = DefaultConfig
    /\ pipeline = Idle /\ finder = Idle
    /\ \E mp \in [PairIdx -> Coords \X Coords] :
          TreeIs([NewTree EXCEPT !.mean_points = mp])
    /\ op = [name |-> "init"]
    /\ ev = NewEvaluator
    /\ matcher = Idle /\ pairopt = Idle /\ areaopt = Idle

\* pair k becomes pair (k + shift) % 4
relabel(mp, shift) == [k \in PairIdx |-> mp[(k + NumPairs - shift) % NumPairs]]

RelabelPairs ==
    /\ \E shift \in 1..(NumPairs - 1) : mean_points' = relabel(mean_points, shift)
    /\ UNCHANGED <<children, gcObj, grandchildren, sorted_grandchildren,
                   pairing_candidate_map, children_created, grandchildren_created,
                   grandchildren_sorted, err, op, ev, matcher, pairopt, areaopt,
                   config, pipeline, finder>>

\* the area of the mean points the tree holds
CalculateArea ==
    /\ op' = [name |-> "area", area |-> TreeEvaluator_area(Tree)]
    /\ UNCHANGED <<treeVars, err, ev, matcher, pairopt, areaopt, config, pipeline, finder>>

NextShoelace == RelabelPairs \/ CalculateArea

SpecShoelace == InitShoelace /\ [][NextShoelace]_vars

\* twice the signed area of the triangle p, q, r
cross(p, q, r) == (q[1] - p[1]) * (r[2] - p[2]) - (q[2] - p[2]) * (r[1] - p[1])

Collinear(mp) == \A i, j, k \in DOMAIN mp : cross(mp[i], mp[j], mp[k]) = 0

\* C23: the shoelace area of the 4 mean points is the same after every
\* cyclic relabeling of the 4 pairs, and it is zero when the 4 mean points
\* are collinear.
C23_ShoelaceCyclicAndCollinear ==
    /\ [](op.name = "area" /\ Collinear(mean_points) => op.area = 0)
    /\ [][op.name = "area" /\ op'.name = "area" => op'.area = op.area]_vars

\* an area that is not zero, computed again after a relabeling
C23_Witness ==
    /\ op.name = "area" /\ op.area > 0
    /\ TreeEvaluator_area(Tree) = op.area
    /\ mean_points[0] # mean_points[1]
    /\ ~Collinear(mean_points)

\* four distinct collinear mean points whose area has been computed
C23_WitnessCollinear ==
    /\ op.name = "area" /\ Collinear(mean_points)
    /\ \A i, j \in PairIdx : i # j => mean_points[i] # mean_points[j]


----------------------------------------------------------------------------
(* Properties of the pairs *)

\* the pairs find_optimal_pairs has returned
FinalPairs ==
    IF finder # Idle /\ finder.state = "done" /\ finder.result # NoneResult
    THEN RangeOf(finder.result.final_pairs) ELSE {}

\* the partners the pairing candidate map of the tree lists for a grandchild
AllowedPartners(i) ==
    {pairing_candidate_map[i][k] : k \in DOMAIN pairing_candidate_map[i]}

Siblings(i, j) == GcOf(Tree, i).parent_idx = GcOf(Tree, j).parent_idx

----------------------------------------------------------------------------
(* Specification SpecScan: one iteration of the loop of                    *)
(* extract_pairs_from_chronology.  The loop has reached a grandchild with  *)
(* at most one pair made before; the chronology of the grandchild is drawn *)
(* and scanned, and op keeps the chronology and the set of used            *)
(* grandchildren the scan started from.                                    *)

ScanGc == 3         \* grandchildren 0..ScanGc-1
MaxScan == 3        \* longest chronology
ScanDist == 2       \* largest meeting distance (0 is below the threshold)

ScanKeys == 0..(ScanGc - 1)

ScanMeetings(gc_idx) ==
    {[type |-> "grandchild", partner_idx |-> p, distance |-> d] :
        p \in ScanKeys \ {gc_idx}, d \in 0..ScanDist}
    \cup
    {[type |-> "parent", partner_idx |-> q, distance |-> d] :
        q \in {parent_of(k) : k \in ScanKeys} \ {parent_of(gc_idx)}, d \in 0..ScanDist}

\* one entry per partner, in chronological order
ScanLists(gc_idx) ==
    UNION {{l \in [1..n -> ScanMeetings(gc_idx)] :
              \A i, j \in 1..n : i # j =>
                  <<l[i].type, l[i].partner_idx>> # <<l[j].type, l[j].partner_idx>>} :
           n \in 0..MaxScan}

\* the matcher when the loop reaches gc_idx: no pair yet, or one pair of an
\* earlier grandchild
MatchersAt(gc_idx) ==
    {[variant |-> "pairs", pos |-> gc_idx, used |-> {}, pairs |-> <<>>]}
    \cup
    {make_pair([variant |-> "pairs", pos |-> gc_idx, used |-> {}, pairs |-> <<>>],
               made[1], [type |-> "grandchild", partner_idx |-> made[2], distance |-> 0]) :
        made \in {e \in ScanKeys \X ScanKeys : e[1] < gc_idx /\ e[2] # e[1]}}

InitScan ==
    /\ config = DefaultConfig
    /\ pipeline = Idle /\ finder = Idle
    /\ TreeIs(NewTree)
    /\ op = [name |-> "init"]
    /\ ev = NewEvaluator
    /\ \E gc_idx \in ScanKeys : matcher \in MatchersAt(gc_idx)
    /\ pairopt = Idle /\ areaopt = Idle

\* lines 28-124: the body of the loop for one grandchild
ProcessGrandchild ==
    /\ op.name = "init"
    /\ \E meetings \in ScanLists(matcher.pos) :
          /\ matcher' = process_grandchild(matcher, meetings)
          /\ op' = [name |-> "process_grandchild", gc_idx |-> matcher.pos,
                    meetings |-> meetings, used |-> matcher.used,
                    pairs |-> Len(matcher.pairs)]
    /\ UNCHANGED <<treeVars, err, ev, pairopt, areaopt, config, pipeline, finder>>

NextScan == ProcessGrandchild

SpecScan == InitScan /\ [][NextScan]_vars

\* a grandchild that was not in a pair when the loop reached it has been
\* processed
Scanned == op.name = "process_grandchild" /\ op.gc_idx \notin op.used

\* meeting k is with a grandchild that was not in a pair
Available(k) ==
    op.meetings[k].type = "grandchild" /\ op.meetings[k].partner_idx \notin op.used

UltraCloseGrandchild(k) == Available(k) /\ op.meetings[k].distance < UltraClose

UltraCloseParent(k) ==
    op.meetings[k].type = "parent" /\ op.meetings[k].distance < UltraClose

\* the scan reaches meeting k: nothing before it ends the scan
Reached(k) == \A h \in 1..(k - 1) : ~UltraCloseGrandchild(h) /\ ~UltraCloseParent(h)

\* the pair the iteration has appended for the grandchild is meeting k
PairedBy(k) ==
    /\ Len(matcher.pairs) = op.pairs + 1
    /\ matcher.pairs[Len(matcher.pairs)] =
            [gc_idx |-> op.gc_idx, partner_idx |-> op.meetings[k].partner_idx,
             meeting |-> op.meetings[k]]
    /\ matcher.used = op.used \cup {op.gc_idx, op.meetings[k].partner_idx}

Unpaired == matcher.pairs = SubSeq(matcher.pairs, 1, op.pairs) /\ Len(matcher.pairs) = op.pairs
            /\ matcher.used = op.used

\* C25: the loop goes on to the next index after every grandchild, and when
\* the scan of the chronology of an unpaired grandchild reaches a grandchild
\* meeting below the 1e-6 threshold whose partner is unpaired, that meeting
\* is the pair of the grandchild, whatever follows it in the chronology.
C25_UltraCloseMeetingIsTakenAtOnce ==
    /\ [](Scanned =>
            \A k \in DOMAIN op.meetings :
                Reached(k) /\ UltraCloseGrandchild(k) => PairedBy(k))
    /\ [][matcher'.pos = matcher.pos + 1]_vars

\* an ultra-close meeting taken after a wider one with a free partner, with
\* a meeting left behind it
C25_Witness ==
    /\ Scanned
    /\ Len(op.meetings) = 3
    /\ Available(1) /\ ~UltraCloseGrandchild(1)
    /\ UltraCloseGrandchild(2)
    /\ PairedBy(2)


\* where the scan ends when no grandchild meeting ends it: the first parent
\* met below the threshold, or the end of the chronology
StopIndex ==
    LET stops == {k \in DOMAIN op.meetings : UltraCloseParent(k)}
    IN  IF stops = {} THEN Len(op.meetings) + 1 ELSE Min(stops)

\* the grandchild meetings with an unpaired partner seen before the stop
SeenBeforeStop == {k \in 1..(StopIndex - 1) : Available(k)}

\* C26: when no grandchild meeting below the threshold is accepted, the
\* grandchild is paired by the smallest-distance grandchild meeting with an
\* unpaired partner among those scanned before the first parent met below
\* 1e-6, or among all of them when there is no such parent; it stays
\* unpaired when there is none.
C26_BestMeetingBeforeStop ==
    Scanned /\ (\A k \in 1..(StopIndex - 1) : ~UltraCloseGrandchild(k)) =>
        IF SeenBeforeStop = {} THEN Unpaired
        ELSE \E k \in SeenBeforeStop :
                /\ PairedBy(k)
                /\ \A h \in SeenBeforeStop :
                      op.meetings[k].distance <= op.meetings[h].distance

\* a parent stops the scan before a closer grandchild meeting is reached
C26_Witness ==
    /\ Scanned
    /\ StopIndex = 2 /\ Len(op.meetings) = 3
    /\ Available(1) /\ Available(3)
    /\ op.meetings[3].distance < op.meetings[1].distance
    /\ PairedBy(1)

\* the chronology ends and the closer of two grandchild meetings is taken
C26_WitnessEnd ==
    /\ Scanned
    /\ Len(op.meetings) = 2 /\ StopIndex = 3
    /\ Available(1) /\ Available(2)
    /\ op.meetings[2].distance < op.meetings[1].distance
    /\ PairedBy(2)

\* a parent stops the scan before any grandchild meeting
C26_WitnessUnpaired ==
    /\ Scanned
    /\ StopIndex = 1 /\ Len(op.meetings) > 1 /\ Available(2)
    /\ Unpaired


\* the dt the optimisation of the pair of g and other computed for g; the
\* pair was optimised under the name of its lower index first
OptimizedDt(g, other) ==
    IF g < other
    THEN finder.gc_gc_optimization_results[<<g, other>>].optimal_dt_i
    ELSE finder.gc_gc_optimization_results[<<other, g>>].optimal_dt_j

\* the grandchild meetings of the chronology of g
GrandchildMeetings(g) ==
    {m \in RangeOf(finder.chronology[g]) : m.type = "grandchild"}

\* C28: in every extracted pair (i, j, meeting), and in every grandchild
\* meeting of a chronology, time_gc is the dt the optimisation computed for
\* the grandchild the meeting belongs to and time_partner the dt it computed
\* for the partner, whichever of the two has the lower index; and
\* extract_optimal_times_from_pairs gives each paired grandchild its own.
C28_TimesBelongToTheirGrandchild ==
    FinalPairs # {} =>
        /\ \A g \in DOMAIN finder.chronology : \A m \in GrandchildMeetings(g) :
              /\ m.time_gc = OptimizedDt(g, m.partner_idx)
              /\ m.time_partner = OptimizedDt(m.partner_idx, g)
        /\ \A pair \in FinalPairs :
              /\ pair.meeting.time_gc = OptimizedDt(pair.gc_idx, pair.partner_idx)
              /\ pair.meeting.time_partner = OptimizedDt(pair.partner_idx, pair.gc_idx)
        /\ LET times == extract_optimal_times_from_pairs(finder.result.final_pairs, Tree)
           IN  times # NoneResult =>
                 \A pair \in FinalPairs :
                    /\ times.dt_grandchildren[pair.gc_idx]
                          = OptimizedDt(pair.gc_idx, pair.partner_idx)
                    /\ times.dt_grandchildren[pair.partner_idx]
                          = OptimizedDt(pair.partner_idx, pair.gc_idx)

\* a pair whose two grandchildren were given different times
C28_Witness ==
    \E pair \in FinalPairs :
        /\ Abs(pair.meeting.time_gc) # Abs(pair.meeting.time_partner)
        /\ extract_optimal_times_from_pairs(finder.result.final_pairs, Tree) # NoneResult

----------------------------------------------------------------------------
(* Specification SpecRebuild: a tree is rebuilt from a list of pairs, by   *)
(* pairs/create_tree_from_pairs.py or by create_optimized_tree_from_pairs  *)
(* of pairs_3/extract_optimal_dt_from_pairs.py.  The tree variables hold   *)
(* the original tree, pipeline holds the call and what it returned.        *)

\* pairs_3/extract_optimal_dt_from_pairs.py, lines 1-100: the signed dt of
\* the original tree, with the times of the meetings at the paired
\* grandchildren; a later pair overwrites an earlier one
extract_optimal_dt_from_pairs(pairs, t) ==
    LET writes(g) == {k \in 1..Len(pairs) : g \in {pairs[k].gc_idx, pairs[k].partner_idx}}
        optimal_dt(g) ==
            LET w == pairs[Max(writes(g))]
            IN  IF w.partner_idx = g THEN w.meeting.time_partner ELSE w.meeting.time_gc
    IN  IF \E k \in 1..Len(pairs) :
              {pairs[k].gc_idx, pairs[k].partner_idx} \ (DOMAIN t.grandchildren) # {}
        THEN [raised |-> [type |-> "IndexError", where |-> "extract_optimal_dt_from_pairs"]]
        ELSE [raised |-> NoError,
              dt_grandchildren |-> [g \in DOMAIN t.grandchildren |->
                   IF writes(g) = {} THEN GcOf(t, g).dt ELSE optimal_dt(g)],
              dt_children |-> [i \in DOMAIN t.children |-> t.children[i].dt],
              unpaired_grandchildren |-> {g \in DOMAIN t.grandchildren : writes(g) = {}},
              pairs_count |-> Len(pairs),
              paired_count |-> Cardinality({g \in DOMAIN t.grandchildren : writes(g) # {}})]

\* create_optimized_tree_from_pairs, lines 103-138.  The module imports
\* nothing: the name SporeTree is bound only where the caller has put it
\* into the globals of the function (the file run in a notebook session);
\* elsewhere the call raises NameError.
create_optimized_tree_from_pairs(pairs, original_tree, name_bound) ==
    LET dt_info == extract_optimal_dt_from_pairs(pairs, original_tree)
    IN  IF dt_info.raised # NoError THEN [raised |-> dt_info.raised]
        ELSE IF ~name_bound
        THEN [raised |-> [type |-> "NameError", where |-> "create_optimized_tree_from_pairs"]]
        ELSE LET optimized_tree ==
                    create_tree_from_dt_arrays(NewTree, dt_info.dt_children,
                                               dt_info.dt_grandchildren)
             IN  IF optimized_tree.err # NoError THEN [raised |-> optimized_tree.err]
                 ELSE [raised |-> NoError, optimized_tree |-> optimized_tree,
                       dt_info |-> dt_info]

RebuildEntries == {"create_tree_from_pairs", "create_optimized_tree_from_pairs"}

\* one pair of grandchildren of different parents, with times of the
\* magnitudes a and b in the time direction of each grandchild
RebuildPair(t, i, j, a, b) ==
    <<[gc_idx |-> i, partner_idx |-> j,
       meeting |-> [type |-> "grandchild", partner_idx |-> j, distance |-> 0,
                    time_gc |-> np_sign(GcOf(t, i).dt) * a,
                    time_partner |-> np_sign(GcOf(t, j).dt) * b,
                    meeting_time |-> Max({a, b})]]>>

RebuildPairs(t) ==
    {RebuildPair(t, e[1], e[2], a, b) :
        e \in {<<0, 2>>, <<0, 3>>, <<1, 2>>, <<1, 3>>}, a \in DtBases, b \in DtBases}

InitRebuild ==
    /\ config = DefaultConfig
    /\ pipeline \in {[state |-> "new", entry |-> e] : e \in RebuildEntries}
    /\ finder = Idle
    /\ TreeIs(NewTree)
    /\ op = [name |-> "init"]
    /\ ev = NewEvaluator
    /\ matcher = Idle /\ pairopt = Idle /\ areaopt = Idle

\* the caller creates the original tree at a uniform dt
CreateOriginalTree ==
    /\ pipeline.state = "new"
    /\ \E b \in DtBases :
          SetTree(create_tree_from_dt_arrays(NewTree, [i \in ChildIdx |-> b],
                                             [g \in GcIdx |-> b]))
    /\ pipeline' = [pipeline EXCEPT !.state = "called"]
    /\ op' = [name |-> "create_original_tree"]
    /\ UNCHANGED <<ev, matcher, pairopt, areaopt, config, finder>>

\* pairs/create_tree_from_pairs.py, given the pairs its find_optimal_pairs
\* returned
RebuildFromPairs ==
    /\ pipeline.state = "called"
    /\ pipeline.entry = "create_tree_from_pairs"
    /\ \E pairs \in RebuildPairs(Tree) :
          pipeline' = [state |-> "returned", entry |-> pipeline.entry, pairs |-> pairs,
                       raised |-> NoError,
                       result |-> create_tree_from_pairs(Tree,
                                      [kind |-> "pairs", final_pairs |-> pairs])]
    /\ op' = [name |-> "create_tree_from_pairs"]
    /\ UNCHANGED <<treeVars, err, ev, matcher, pairopt, areaopt, config, finder>>

\* pairs_3: create_optimized_tree_from_pairs
RebuildOptimizedFromPairs ==
    /\ pipeline.state = "called"
    /\ pipeline.entry = "create_optimized_tree_from_pairs"
    /\ \E pairs \in RebuildPairs(Tree), name_bound \in BOOLEAN :
          LET r == create_optimized_tree_from_pairs(pairs, Tree, name_bound)
          IN  pipeline' = [state |-> "returned", entry |-> pipeline.entry, pairs |-> pairs,
                           raised |-> r.raised,
                           result |-> IF r.raised # NoError THEN NoneResult
                                      ELSE [kind |-> "dict", success |-> TRUE,
                                            optimized_tree |-> r.optimized_tree]]
    /\ op' = [name |-> "create_optimized_tree_from_pairs"]
    /\ UNCHANGED <<treeVars, err, ev, matcher, pairopt, areaopt, config, finder>>

NextRebuild == CreateOriginalTree \/ RebuildFromPairs \/ RebuildOptimizedFromPairs

SpecRebuild == InitRebuild /\ [][NextRebuild]_vars

\* C29: the tree rebuilt from pairs has every child and every grandchild in
\* the time direction the same spore has in the original tree.
C29_RebuildKeepsDirections ==
    pipeline.state = "returned" /\ succeeded(pipeline.result) =>
        LET rebuilt == pipeline.result.optimized_tree
        IN  /\ \A i \in ChildIdx :
                  Direction(rebuilt.children[i].dt) = Direction(children[i].dt)
            /\ \A g \in GcIdx :
                  Direction(GcOf(rebuilt, g).dt) = Direction(GcOf(Tree, g).dt)

----------------------------------------------------------------------------
(* Derived state of the tree and of the evaluator *)

\* C27: whenever the sorted flag is set, sorted_grandchildren holds exactly
\* the records that are in grandchildren now, the pairing candidate map has
\* the keys of the grandchildren of now, and the mean points, when there are
\* any, are those of the sorted pairs of now.
C27_NoStaleDerivedState ==
    grandchildren_sorted =>
        /\ {sorted_grandchildren[k] : k \in DOMAIN sorted_grandchildren}
              = {grandchildren[k] : k \in DOMAIN grandchildren}
        /\ Len0(sorted_grandchildren) = Len0(grandchildren)
        /\ DOMAIN pairing_candidate_map
              = {Grandchildren[k].global_idx : k \in DOMAIN Grandchildren}
        /\ mean_points # NoMeanPoints => mean_points = pair_means(Tree)


\* C30: after every call of the evaluator the tree stands at a dt-vector that
\* is within the tolerance of np.allclose of the dt-vector of the call,
\* whatever calls came before.
C30_TreeStandsNearRequestedDt ==
    op.name \in {"area", "pair_distances", "calculate_loss_components"} /\ err = NoError =>
        allclose(op.dt, tree_dt(Tree))

====
